---------------------------- MODULE Spec2Model ----------------------------
(***************************************************************************)
(* Name reconciliation (src/qual_ctrl.py) and database integrity checks    *)
(* (src/integrity.py) of the dfs utilities, with the program timer         *)
(* (src/timer.py), the path helpers (src/io.py) and the database update    *)
(* (src/db.py).                                                            *)
(*                                                                         *)
(* A Python str is modelled as a sequence of one-character strings, so     *)
(* that indexing, slicing, strip, replace, split and the regular           *)
(* expressions of the source are computed character by character.  The     *)
(* fixed message literals of the source are kept as one chunk each.        *)
(*                                                                         *)
(* Every class of the source has its own specification over the shared     *)
(* variables; the variables of the other classes stay at their idle        *)
(* values.                                                                 *)
(***************************************************************************)
EXTENDS Integers, Sequences, FiniteSets, TLC

VARIABLES
    \* NameConverter (qual_ctrl.py:17-78)
    known_pairs,        \* dict old_name -> new_name
    known_missing,      \* set of names
    known,              \* set of names
    unhandled_names,    \* set of names
    raise_exc,          \* bool
    nc_call,            \* the last call on the converter and its outcome
    \* MostSimilarNameWizard (qual_ctrl.py:251-332) and AliasWizard.df
    universe,           \* list of names
    alias_df,           \* rows (name, nickname) of the nickname sheet
    wiz,                \* instance attributes name/first/last/suffix
    solve_call,         \* the last call of solve() and its outcome
    alias_call,         \* the last call on the AliasWizard and its result
    \* AbbreviatedNameWizard (qual_ctrl.py:199-248)
    raw_names,          \* list of names
    name_objs,          \* list of Name objects
    used_levenshtein,   \* dict abbrev -> name
    abbr_call,          \* the last call of full_name() and its outcome
    \* DBIntegrityCheck (integrity.py:14-247)
    tstats,             \* rows of the team table
    err_log,            \* rows (table, id, info)
    chk_call,           \* the last inspection run
    pstats,             \* rows of the player table
    inj,                \* rows of the injury table
    news,               \* rows of the news table
    name_log,           \* rows (name1, name2, dist)
    known_sim_names,    \* list of pairs of names
    report,             \* what inspect_db printed and saved
    \* ProgramTimer (timer.py:53-143)
    events,             \* dict uid -> Event, uids 1..len
    timer_call,         \* the last call of s() or e() and its outcome
    \* clean_csv_path (io.py:354-368)
    fs,                 \* the paths that exist
    csv,                \* the position and the locals of a call
    \* DBWrapper and DBUpdate (db.py:30-176)
    db_log,             \* rows (success, sql_query) of DBWrapper.log
    db_commits,         \* number of conn.commit() calls
    db_call             \* the last call of update() and what it did

nc_vars   == <<known_pairs, known_missing, known, unhandled_names, raise_exc, nc_call>>
wiz_vars  == <<universe, alias_df, wiz, solve_call, alias_call>>
abbr_vars == <<raw_names, name_objs, used_levenshtein, abbr_call>>
chk_vars  == <<tstats, err_log, chk_call, pstats, inj, news, name_log,
               known_sim_names, report>>
timer_vars == <<events, timer_call>>
csv_vars  == <<fs, csv>>
db_vars   == <<db_log, db_commits, db_call>>
util_vars == <<timer_vars, csv_vars, db_vars>>
vars      == <<nc_vars, wiz_vars, abbr_vars, chk_vars, util_vars>>

-----------------------------------------------------------------------------
(* Strings                                                                 *)

Min(a, b) == IF a <= b THEN a ELSE b

\* The whitespace of the modelled alphabet (\s, str.strip).
IsSpace(c) == c = " "

\* s[i:] of Python for 0-based i >= 0.
SliceFrom(s, i) == IF i >= Len(s) THEN <<>> ELSE SubSeq(s, i + 1, Len(s))

RECURSIVE LStrip(_)
LStrip(s) == IF s # <<>> /\ IsSpace(Head(s)) THEN LStrip(Tail(s)) ELSE s

RECURSIVE RStrip(_)
RStrip(s) ==
    IF s # <<>> /\ IsSpace(s[Len(s)]) THEN RStrip(SubSeq(s, 1, Len(s) - 1)) ELSE s

\* str.strip()
Strip(s) == RStrip(LStrip(s))

\* c in s
Contains(s, c) == \E i \in 1..Len(s) : s[i] = c

\* s.replace(c, '')
RECURSIVE Remove(_, _)
Remove(s, c) ==
    IF s = <<>> THEN <<>>
    ELSE IF Head(s) = c THEN Remove(Tail(s), c)
    ELSE <<Head(s)>> \o Remove(Tail(s), c)

\* s.split(c): the list of the pieces between the occurrences of c.
RECURSIVE SplitAcc(_, _, _)
SplitAcc(s, c, cur) ==
    IF s = <<>> THEN <<cur>>
    ELSE IF Head(s) = c THEN <<cur>> \o SplitAcc(Tail(s), c, <<>>)
    ELSE SplitAcc(Tail(s), c, Append(cur, Head(s)))

Split(s, c) == SplitAcc(s, c, <<>>)

\* x in list
InList(x, list) == \E i \in 1..Len(list) : list[i] = x

Upper == {"A", "B", "C", "D", "E", "F", "G", "H", "I", "J", "K", "L", "M",
          "N", "O", "P", "Q", "R", "S", "T", "U", "V", "W", "X", "Y", "Z"}

-----------------------------------------------------------------------------
(* Names used as inputs                                                    *)

SP == <<" ">>

wCJ      == <<"C", "J">>
wCdJd    == <<"C", ".", "J", ".">>
wChris   == <<"C", "h", "r", "i", "s">>
wJohn    == <<"J", "o", "h", "n">>
wJon     == <<"J", "o", "n">>
wSmith   == <<"S", "m", "i", "t", "h">>
wJones   == <<"J", "o", "n", "e", "s">>
wJr      == <<"J", "r">>
wONeal   == <<"O", "'", "N", "e", "a", "l">>
wONeal2  == <<"O", "N", "e", "a", "l">>
wHyph    == wSmith \o <<"-">> \o wJones

nCJSmith     == wCJ \o SP \o wSmith
nCdJdSmith   == wCdJd \o SP \o wSmith
nChrisSmith  == wChris \o SP \o wSmith
nJohnSmith   == wJohn \o SP \o wSmith
nJonSmith    == wJon \o SP \o wSmith
nJohnJones   == wJohn \o SP \o wJones
nJohnHyph    == wJohn \o SP \o wHyph
nJohnSmithJr == wJohn \o SP \o wSmith \o SP \o wJr
nJohnONeal   == wJohn \o SP \o wONeal
nJohnONeal2  == wJohn \o SP \o wONeal2
nSmith       == wSmith
nPadded      == SP \o nJohnSmith

-----------------------------------------------------------------------------
(* NameConverter                                                           *)

\* Bound of the mapping of a converter.
MaxPairs == 1

\* The names the reference data is made of and clean() is called with.
NCNames == {nJohnSmith, nJonSmith, <<>>}

\* 'Should be {}.'.format(new)
ShouldBe(new) == <<"Should be ">> \o new \o <<".">>
MsgKnownMissing == <<"Known to be missing from PStats.">>
MsgInPStats == <<"In PStats.">>
MsgNotInPStats ==
    <<"Not in PStats, no associated name, and not known to be missing.">>

NoCall == [op |-> "none", arg |-> <<>>, outcome |-> "none", ret |-> <<>>,
           flag |-> FALSE]

\* Mutant: membership in known/known_missing is tested before the mapping.
cleanKnownFirst(kp, km, k, uh, re, name) ==
    IF name \in km \/ name \in k
    THEN [outcome |-> "return", ret |-> name, unhandled |-> uh]
    ELSE IF name \in DOMAIN kp
    THEN [outcome |-> "return", ret |-> kp[name], unhandled |-> uh]
    ELSE IF re
    THEN [outcome |-> "PMissingError", ret |-> <<>>, unhandled |-> uh \cup {name}]
    ELSE [outcome |-> "return_none", ret |-> <<>>, unhandled |-> uh \cup {name}]

\* Mutant: the known set is not consulted.
cleanNoKnown(kp, km, k, uh, re, name) ==
    IF name \in DOMAIN kp
    THEN [outcome |-> "return", ret |-> kp[name], unhandled |-> uh]
    ELSE IF name \in km
    THEN [outcome |-> "return", ret |-> name, unhandled |-> uh]
    ELSE IF re
    THEN [outcome |-> "PMissingError", ret |-> <<>>, unhandled |-> uh \cup {name}]
    ELSE [outcome |-> "return_none", ret |-> <<>>, unhandled |-> uh \cup {name}]

\* Mutant: in strict mode the error is raised before the name is recorded.
cleanRaiseFirst(kp, km, k, uh, re, name) ==
    IF name \in DOMAIN kp
    THEN [outcome |-> "return", ret |-> kp[name], unhandled |-> uh]
    ELSE IF name \in km \/ name \in k
    THEN [outcome |-> "return", ret |-> name, unhandled |-> uh]
    ELSE IF re
    THEN [outcome |-> "PMissingError", ret |-> <<>>, unhandled |-> uh]
    ELSE [outcome |-> "return_none", ret |-> <<>>, unhandled |-> uh \cup {name}]

\* Mutant: unhandled_names keeps the last unrecognized name only.
cleanKeepsLast(kp, km, k, uh, re, name) ==
    IF name \in DOMAIN kp
    THEN [outcome |-> "return", ret |-> kp[name], unhandled |-> uh]
    ELSE IF name \in km \/ name \in k
    THEN [outcome |-> "return", ret |-> name, unhandled |-> uh]
    ELSE IF re
    THEN [outcome |-> "PMissingError", ret |-> <<>>, unhandled |-> {name}]
    ELSE [outcome |-> "return_none", ret |-> <<>>, unhandled |-> {name}]

\* NameConverter.clean: the outcome and the new unhandled_names.
clean(kp, km, k, uh, re, name) ==
    IF name \in DOMAIN kp
    THEN [outcome |-> "return", ret |-> kp[name], unhandled |-> uh]
    ELSE IF name \in km \/ name \in k
    THEN [outcome |-> "return", ret |-> name, unhandled |-> uh]
    ELSE IF re
    THEN [outcome |-> "PMissingError", ret |-> <<>>, unhandled |-> uh \cup {name}]
    ELSE [outcome |-> "return_none", ret |-> <<>>, unhandled |-> uh \cup {name}]

\* Mutant: a known-missing name is reported as problematic.
isProblematicMissing(kp, km, k, name) ==
    IF name \in DOMAIN kp THEN [flag |-> TRUE, ret |-> ShouldBe(kp[name])]
    ELSE IF name \in km THEN [flag |-> TRUE, ret |-> MsgKnownMissing]
    ELSE IF name \in k THEN [flag |-> FALSE, ret |-> MsgInPStats]
    ELSE [flag |-> TRUE, ret |-> MsgNotInPStats]

\* NameConverter.is_problematic: the pair (bool, reason).
is_problematic(kp, km, k, name) ==
    IF name \in DOMAIN kp THEN [flag |-> TRUE, ret |-> ShouldBe(kp[name])]
    ELSE IF name \in km THEN [flag |-> FALSE, ret |-> MsgKnownMissing]
    ELSE IF name \in k THEN [flag |-> FALSE, ret |-> MsgInPStats]
    ELSE [flag |-> TRUE, ret |-> MsgNotInPStats]

\* NameConverter.some_names_missing
some_names_missing == Cardinality(unhandled_names) # 0

NCIdle ==
    /\ known_pairs = <<>>
    /\ known_missing = {}
    /\ known = {}
    /\ unhandled_names = {}
    /\ raise_exc = TRUE
    /\ nc_call = NoCall

WizIdle ==
    /\ universe = <<>>
    /\ alias_df = <<>>
    /\ wiz = <<>>
    /\ solve_call = <<>>
    /\ alias_call = <<>>

AbbrIdle ==
    /\ raw_names = <<>>
    /\ name_objs = <<>>
    /\ used_levenshtein = <<>>
    /\ abbr_call = <<>>

TimerIdle == events = <<>> /\ timer_call = <<>>
CsvIdle == fs = {} /\ csv = <<>>
DbIdle == db_log = <<>> /\ db_commits = 0 /\ db_call = <<>>
UtilIdle == TimerIdle /\ CsvIdle /\ DbIdle

\* The snapshots and logs of a checker other than the team table.
ChkRestIdle ==
    /\ pstats = <<>>
    /\ inj = <<>>
    /\ news = <<>>
    /\ name_log = <<>>
    /\ known_sim_names = <<>>
    /\ report = <<>>

ChkIdle ==
    /\ tstats = <<>>
    /\ err_log = <<>>
    /\ chk_call = <<>>
    /\ ChkRestIdle

\* NameConverter.__init__: the three reference collections as loaded, an
\* empty unhandled_names, and the mode.  excl_teams only adds names to known.
InitNameConverter ==
    /\ UtilIdle
    /\ known_pairs \in UNION {[D -> NCNames] :
                                D \in {X \in SUBSET NCNames : Cardinality(X) <= MaxPairs}}
    /\ known_missing \in SUBSET NCNames
    /\ known \in SUBSET NCNames
    /\ unhandled_names = {}
    /\ raise_exc \in BOOLEAN
    /\ nc_call = NoCall
    /\ WizIdle /\ AbbrIdle /\ ChkIdle

Clean(name) ==
    LET r == clean(known_pairs, known_missing, known, unhandled_names, raise_exc, name)
    IN /\ unhandled_names' = r.unhandled
       /\ nc_call' = [op |-> "clean", arg |-> name, outcome |-> r.outcome,
                      ret |-> r.ret, flag |-> FALSE]
       /\ UNCHANGED <<known_pairs, known_missing, known, raise_exc>>
       /\ UNCHANGED <<wiz_vars, abbr_vars, chk_vars, util_vars>>

IsProblematic(name) ==
    LET r == is_problematic(known_pairs, known_missing, known, name)
    IN /\ nc_call' = [op |-> "is_problematic", arg |-> name, outcome |-> "return",
                      ret |-> r.ret, flag |-> r.flag]
       /\ UNCHANGED <<known_pairs, known_missing, known, unhandled_names, raise_exc>>
       /\ UNCHANGED <<wiz_vars, abbr_vars, chk_vars, util_vars>>

NextNameConverter ==
    \/ \E name \in NCNames : Clean(name)
    \/ \E name \in NCNames : IsProblematic(name)

SpecNameConverter == InitNameConverter /\ [][NextNameConverter]_vars

-----------------------------------------------------------------------------
(* Claims about NameConverter                                              *)

CleanedName == nc_call.op = "clean"
InNoCollection(name) ==
    /\ name \notin DOMAIN known_pairs
    /\ name \notin known_missing
    /\ name \notin known

\* C1: clean(old) returns known_pairs[old] for every key old of the mapping,
\* also when old is in known or in known_missing.
C1_MappingTakesPrecedence ==
    (CleanedName /\ nc_call.arg \in DOMAIN known_pairs)
        => /\ nc_call.outcome = "return"
           /\ nc_call.ret = known_pairs[nc_call.arg]

C1_Witness ==
    /\ CleanedName
    /\ nc_call.arg \in DOMAIN known_pairs
    /\ nc_call.arg \in known
    /\ nc_call.arg \in known_missing
    /\ known_pairs[nc_call.arg] # nc_call.arg
    /\ nc_call.ret = known_pairs[nc_call.arg]

\* C2 as stated: clean(n) returns n for every n of known, whatever the
\* mapping holds.
C2_KnownReturnedUnchanged ==
    (CleanedName /\ nc_call.arg \in known)
        => /\ nc_call.outcome = "return"
           /\ nc_call.ret = nc_call.arg

\* C2 amended: clean(n) returns n for every n of known that is not a key of
\* the mapping; for a key it returns the mapped name.
C2_KnownNotMappedReturnedUnchanged ==
    (CleanedName /\ nc_call.arg \in known)
        => /\ nc_call.outcome = "return"
           /\ nc_call.arg \notin DOMAIN known_pairs => nc_call.ret = nc_call.arg
           /\ nc_call.arg \in DOMAIN known_pairs
                => nc_call.ret = known_pairs[nc_call.arg]

C2_Witness ==
    /\ CleanedName
    /\ nc_call.arg \in known
    /\ nc_call.arg \notin known_missing
    /\ nc_call.arg \notin DOMAIN known_pairs
    /\ DOMAIN known_pairs # {}
    /\ nc_call.ret = nc_call.arg

\* C3: clean(name) with a name in none of the three collections records the
\* name in unhandled_names, then raises PMissingError in strict mode and
\* returns None in lenient mode.
C3_UnhandledRecordedThenSignalled ==
    (CleanedName /\ InNoCollection(nc_call.arg))
        => /\ nc_call.arg \in unhandled_names
           /\ raise_exc => nc_call.outcome = "PMissingError"
           /\ ~raise_exc => nc_call.outcome = "return_none"

C3_Witness ==
    /\ CleanedName
    /\ InNoCollection(nc_call.arg)
    /\ raise_exc
    /\ nc_call.outcome = "PMissingError"
    /\ nc_call.arg \in unhandled_names

\* C4: is_problematic(name) changes nothing of the converter, does not raise,
\* and returns (flag, reason) with a non-empty reason, where flag is true
\* exactly when name is a key of the mapping or is in none of the collections.
NonEmptyText(t) == \E i \in 1..Len(t) : t[i] # ""

C4_IsProblematicReadOnly ==
    [][nc_call'.op = "is_problematic"
         => /\ UNCHANGED <<known_pairs, known_missing, known, unhandled_names,
                           raise_exc>>
            /\ nc_call'.outcome = "return"
            /\ NonEmptyText(nc_call'.ret)
            /\ nc_call'.flag <=> \/ nc_call'.arg \in DOMAIN known_pairs
                                 \/ InNoCollection(nc_call'.arg)]_vars

C4_Witness ==
    /\ nc_call.op = "is_problematic"
    /\ nc_call.flag
    /\ InNoCollection(nc_call.arg)
    /\ unhandled_names # {}
    /\ nc_call.arg \notin unhandled_names


\* C25: unhandled_names is empty after construction; a clean() call with a
\* name in none of the three collections adds that name and every other call
\* of clean() or is_problematic() leaves the set as it is, so that no name is
\* ever removed, in strict and in lenient mode; some_names_missing is true
\* exactly when the set is not empty.
C25_UnhandledNamesOnlyGrow ==
    /\ unhandled_names = {} /\ ~some_names_missing
    /\ [][/\ unhandled_names \subseteq unhandled_names'
          /\ unhandled_names' =
                unhandled_names \cup
                    (IF nc_call'.op = "clean" /\ InNoCollection(nc_call'.arg)
                     THEN {nc_call'.arg} ELSE {})
          /\ some_names_missing' <=> unhandled_names' # {}]_vars

\* Two unrecognized names were cleaned, in lenient mode, before a call of
\* is_problematic for a name of the mapping.
C25_Witness ==
    /\ nc_call.op = "is_problematic"
    /\ ~raise_exc
    /\ nc_call.arg \in DOMAIN known_pairs
    /\ Cardinality(unhandled_names) = 2
    /\ \A n \in unhandled_names : InNoCollection(n)
    /\ some_names_missing

-----------------------------------------------------------------------------
(* Regular expressions of Name and MostSimilarNameWizard                   *)

\* The value None.  No str equals it: a str holds one-character strings.
None == <<"None">>
\* An instance attribute that was never assigned.
Unset == <<"unset">>

\* [^\s,]
IsLastChar(c) == ~IsSpace(c) /\ c # ","

\* [JS]r\.?|III?|IV|V, anchored by the $ that follows it.
Suffixes == {<<"J", "r">>, <<"J", "r", ".">>, <<"S", "r">>, <<"S", "r", ".">>,
             <<"I", "I">>, <<"I", "I", "I">>, <<"I", "V">>, <<"V">>}

\* The end of the greedy run [^\s,]+ that starts at position i of s
\* (i - 1 when the run is empty).
RECURSIVE RunEnd(_, _)
RunEnd(s, i) ==
    IF i <= Len(s) /\ IsLastChar(s[i]) THEN RunEnd(s, i + 1) ELSE i - 1

\* (,?\s(?P<suffix>...))?$ on the text that follows the last name.  A shorter
\* last name never helps: the character after it is neither ',', \s nor the end.
SuffixOf(rest) ==
    IF rest = <<>> THEN [ok |-> TRUE, suffix |-> None]
    ELSE LET k == IF rest[1] = "," THEN 2 ELSE 1
             sfx == SubSeq(rest, k + 1, Len(rest))
         IN IF k <= Len(rest) /\ IsSpace(rest[k]) /\ sfx \in Suffixes
            THEN [ok |-> TRUE, suffix |-> sfx]
            ELSE [ok |-> FALSE, suffix |-> None]

\* \s(?P<last>[^\s,]+)(...)?$ on s from position i on.
TailMatch(s, i) ==
    IF ~IsSpace(s[i])
    THEN [ok |-> FALSE, last |-> <<>>, suffix |-> None]
    ELSE LET j == RunEnd(s, i + 1)
             sfx == SuffixOf(SubSeq(s, j + 1, Len(s)))
         IN IF j >= i + 1 /\ sfx.ok
            THEN [ok |-> TRUE, last |-> SubSeq(s, i + 1, j), suffix |-> sfx.suffix]
            ELSE [ok |-> FALSE, last |-> <<>>, suffix |-> None]

\* The lazy first group .+? takes the shortest non-empty prefix after which
\* the rest of the pattern matches: the scan for the position of its end.
RECURSIVE FirstMatch(_, _)
FirstMatch(s, i) ==
    IF i > Len(s)
    THEN [ok |-> FALSE, first |-> <<>>, last |-> <<>>, suffix |-> None]
    ELSE LET t == TailMatch(s, i)
         IN IF t.ok
            THEN [ok |-> TRUE, first |-> SubSeq(s, 1, i - 1), last |-> t.last,
                  suffix |-> t.suffix]
            ELSE FirstMatch(s, i + 1)

\* __rgx_full_name.match(s)
rgx_full_name(s) == FirstMatch(s, 2)

\* __rgx_abbr_no_periods.match(first): [A-Z][A-Z] at the start of first.
rgx_abbr_no_periods(first) ==
    Len(first) >= 2 /\ first[1] \in Upper /\ first[2] \in Upper

\* __rgx_abbr_periods.match(first): [A-Z]\.[A-Z]\. at the start of first.
rgx_abbr_periods(first) ==
    /\ Len(first) >= 4
    /\ first[1] \in Upper /\ first[2] = "."
    /\ first[3] \in Upper /\ first[4] = "."

-----------------------------------------------------------------------------
(* AliasWizard                                                             *)

\* Series.unique().tolist(): the distinct values in order of first appearance.
RECURSIVE UniqueAcc(_, _)
UniqueAcc(list, acc) ==
    IF list = <<>> THEN acc
    ELSE IF InList(Head(list), acc) THEN UniqueAcc(Tail(list), acc)
    ELSE UniqueAcc(Tail(list), Append(acc, Head(list)))

Unique(list) == UniqueAcc(list, <<>>)

\* df[df[col] == name][other] as a list.
RECURSIVE Column(_, _, _, _)
Column(df, col, name, other) ==
    IF df = <<>> THEN <<>>
    ELSE IF Head(df)[col] = name
    THEN <<Head(df)[other]>> \o Column(Tail(df), col, name, other)
    ELSE Column(Tail(df), col, name, other)

AliasNames(df) == {df[i].name : i \in 1..Len(df)}
AliasNicknames(df) == {df[i].nickname : i \in 1..Len(df)}

\* Mutant: the nickname column is looked up before the name column.
getAliasesNicknameFirst(df, name) ==
    IF name \in {df[i].nickname : i \in 1..Len(df)}
    THEN [found |-> TRUE, list |-> UniqueAcc(Column(df, "nickname", name, "name"), <<>>)]
    ELSE IF name \in {df[i].name : i \in 1..Len(df)}
    THEN [found |-> TRUE, list |-> UniqueAcc(Column(df, "name", name, "nickname"), <<>>)]
    ELSE [found |-> FALSE, list |-> <<>>]

\* AliasWizard.get_aliases: found is FALSE for the result None.
get_aliases(df, name) ==
    IF name \in AliasNames(df)
    THEN [found |-> TRUE, list |-> Unique(Column(df, "name", name, "nickname"))]
    ELSE IF name \in AliasNicknames(df)
    THEN [found |-> TRUE, list |-> Unique(Column(df, "nickname", name, "name"))]
    ELSE [found |-> FALSE, list |-> <<>>]

\* AliasWizard.has_aliases
has_aliases(df, name) ==
    IF name \in AliasNames(df) THEN TRUE
    ELSE IF name \in AliasNicknames(df) THEN TRUE
    ELSE FALSE

-----------------------------------------------------------------------------
(* MostSimilarNameWizard                                                   *)

\* The candidates of a list tested against the universe one after the other:
\* the prefix up to and including the first member of the universe.
RECURSIVE TestedPrefix(_, _)
TestedPrefix(cands, univ) ==
    IF cands = <<>> THEN <<>>
    ELSE IF InList(Head(cands), univ) THEN <<Head(cands)>>
    ELSE <<Head(cands)>> \o TestedPrefix(Tail(cands), univ)

\* [first + ' ' + n for n in comps]
RECURSIVE WithFirst(_, _)
WithFirst(first, comps) ==
    IF comps = <<>> THEN <<>>
    ELSE <<first \o SP \o Head(comps)>> \o WithFirst(first, Tail(comps))

\* [alias + ' ' + last for alias in aliases]
RECURSIVE WithLast(_, _)
WithLast(aliases, last) ==
    IF aliases = <<>> THEN <<>>
    ELSE <<Head(aliases) \o SP \o last>> \o WithLast(Tail(aliases), last)

\* Mutant: the rewritten name is returned without the membership test.
oneShotUnchecked(univ, full_name, new_name, w) ==
    [outcome |-> "return", ret |-> new_name, tested |-> <<full_name, new_name>>,
     wiz |-> w]

\* Lines 284-304: a rule that tests one rewritten name and raises if the
\* universe does not hold it.
OneShot(univ, full_name, new_name, w) ==
    IF InList(new_name, univ)
    THEN [outcome |-> "return", ret |-> new_name,
          tested |-> <<full_name, new_name>>, wiz |-> w]
    ELSE [outcome |-> "PMissingError", ret |-> <<>>,
          tested |-> <<full_name, new_name>>, wiz |-> w]

\* Lines 306-314: the apostrophe candidates, in the order they are tested.
ApostropheCandidates(first, last) ==
    (IF Contains(first, "'") THEN <<Remove(first, "'") \o SP \o last>> ELSE <<>>)
    \o (IF Contains(last, "'") THEN <<first \o SP \o Remove(last, "'")>> ELSE <<>>)

\* Mutant: only the last component of the surname is tested.
hyphenCandidatesLastOnly(first, last) ==
    IF Contains(last, "-")
    THEN <<first \o SP \o Split(last, "-")[Len(Split(last, "-"))]>>
    ELSE <<>>

\* Lines 316-322: the hyphen candidates, in the order they are tested.
HyphenCandidates(first, last) ==
    IF Contains(last, "-") THEN WithFirst(first, Split(last, "-")) ELSE <<>>

\* Lines 324-330: the alias candidates, in the order they are tested.
AliasCandidates(df, first, last) ==
    LET aliases == get_aliases(df, first)
    IN IF aliases.found THEN WithLast(aliases.list, last) ELSE <<>>

\* Mutant: the input is returned as it came when no candidate is found.
fallThroughDefault(univ, df, full_name, w) ==
    LET cands == ApostropheCandidates(w.first, w.last)
                 \o HyphenCandidates(w.first, w.last)
                 \o AliasCandidates(df, w.first, w.last)
        tested == TestedPrefix(cands, univ)
    IN IF tested # <<>> /\ InList(tested[Len(tested)], univ)
       THEN [outcome |-> "return", ret |-> tested[Len(tested)],
             tested |-> <<full_name>> \o tested, wiz |-> w]
       ELSE [outcome |-> "return", ret |-> full_name,
             tested |-> <<full_name>> \o tested, wiz |-> w]

\* Mutant: a name with an apostrophe whose stripped variants are not in the
\* universe is given up without the hyphen and alias rules.
fallThroughApostropheStops(univ, df, full_name, w) ==
    LET apos == ApostropheCandidates(w.first, w.last)
        cands == IF apos # <<>>
                 THEN apos
                 ELSE HyphenCandidates(w.first, w.last)
                      \o AliasCandidates(df, w.first, w.last)
        tested == TestedPrefix(cands, univ)
    IN IF tested # <<>> /\ InList(tested[Len(tested)], univ)
       THEN [outcome |-> "return", ret |-> tested[Len(tested)],
             tested |-> <<full_name>> \o tested, wiz |-> w]
       ELSE [outcome |-> "PMissingError", ret |-> <<>>,
             tested |-> <<full_name>> \o tested, wiz |-> w]

\* Lines 306-332: the rules that fall through to the next one.
FallThrough(univ, df, full_name, w) ==
    LET cands == ApostropheCandidates(w.first, w.last)
                 \o HyphenCandidates(w.first, w.last)
                 \o AliasCandidates(df, w.first, w.last)
        tested == TestedPrefix(cands, univ)
    IN IF tested # <<>> /\ InList(tested[Len(tested)], univ)
       THEN [outcome |-> "return", ret |-> tested[Len(tested)],
             tested |-> <<full_name>> \o tested, wiz |-> w]
       ELSE [outcome |-> "PMissingError", ret |-> <<>>,
             tested |-> <<full_name>> \o tested, wiz |-> w]

\* MostSimilarNameWizard.__break_down_name_components: self.name is assigned
\* before the match; m.group on a failed match (m is None) raises
\* AttributeError and leaves first, last and suffix as they were.
break_down_name_components(w, full_name) ==
    LET m == rgx_full_name(full_name)
    IN IF m.ok
       THEN [ok |-> TRUE,
             wiz |-> [name |-> full_name, first |-> m.first, last |-> m.last,
                      suffix |-> m.suffix]]
       ELSE [ok |-> FALSE, wiz |-> [w EXCEPT !.name = full_name]]

\* Mutant: a suffixed name whose "First Last" is not in the universe goes on
\* to the apostrophe, hyphen and alias rules.
rulesSuffixFallsThrough(univ, df, full_name, n) ==
    IF rgx_abbr_no_periods(n.first)
    THEN OneShot(univ, full_name,
                 <<n.first[1], ".", n.first[2], ".">> \o SP \o n.last, n)
    ELSE IF rgx_abbr_periods(n.first)
    THEN OneShot(univ, full_name, Remove(n.first, ".") \o SP \o n.last, n)
    ELSE IF n.suffix # None /\ InList(n.first \o SP \o n.last, univ)
    THEN OneShot(univ, full_name, n.first \o SP \o n.last, n)
    ELSE FallThrough(univ, df, full_name, n)

\* The rules of solve() after the decomposition (lines 284-332).
Rules(univ, df, full_name, n) ==
    IF rgx_abbr_no_periods(n.first)
    THEN OneShot(univ, full_name,
                 <<n.first[1], ".", n.first[2], ".">> \o SP \o n.last, n)
    ELSE IF rgx_abbr_periods(n.first)
    THEN OneShot(univ, full_name, Remove(n.first, ".") \o SP \o n.last, n)
    ELSE IF n.suffix # None
    THEN OneShot(univ, full_name, n.first \o SP \o n.last, n)
    ELSE FallThrough(univ, df, full_name, n)

\* Mutant: the name is decomposed before the membership test.
solveDecomposeFirst(univ, df, w, full_name) ==
    LET b == break_down_name_components(w, full_name)
    IN IF ~b.ok
       THEN [outcome |-> "AttributeError", ret |-> <<>>,
             tested |-> <<>>, wiz |-> b.wiz]
       ELSE IF InList(full_name, univ)
       THEN [outcome |-> "return", ret |-> full_name, tested |-> <<full_name>>,
             wiz |-> b.wiz]
       ELSE Rules(univ, df, full_name, b.wiz)

\* MostSimilarNameWizard.solve: the outcome, the names tested for membership
\* in the universe (in order) and the instance attributes after the call.
solve(univ, df, w, full_name) ==
    IF InList(full_name, univ)
    THEN [outcome |-> "return", ret |-> full_name, tested |-> <<full_name>>,
          wiz |-> w]
    ELSE LET b == break_down_name_components(w, full_name)
             n == b.wiz
         IN IF ~b.ok
            THEN [outcome |-> "AttributeError", ret |-> <<>>,
                  tested |-> <<full_name>>, wiz |-> n]
            ELSE Rules(univ, df, full_name, n)

\* Bound of the universe handed to a wizard.
MaxUniverse == 2

nJonONealSmith == wJon \o SP \o wONeal \o <<"-">> \o wSmith

UniversePool == {nCJSmith, nCdJdSmith, nChrisSmith, nJohnSmith, nJohnJones,
                 nSmith, nJohnONeal2}
SolveInputs == UniversePool \cup {nJonSmith, nJohnHyph, nJohnSmithJr, nJohnONeal,
                                  nJonONealSmith, wJones}

\* The lists of at most n elements of S.
ListsUpTo(S, n) == UNION {[1..k -> S] : k \in 0..n}

AliasRow(name, nickname) == [name |-> name, nickname |-> nickname]
AliasTables == {<<>>,
                <<AliasRow(wJohn, wJon), AliasRow(wChris, wCdJd),
                  AliasRow(wChris, wCJ)>>}

NoSolve == [op |-> "none", arg |-> <<>>, outcome |-> "none", ret |-> <<>>,
            tested |-> <<>>]

\* MostSimilarNameWizard.__init__ and the class attributes of AliasWizard.
InitSolve ==
    /\ UtilIdle
    /\ universe \in ListsUpTo(UniversePool, MaxUniverse)
    /\ alias_df \in AliasTables
    /\ wiz = [name |-> Unset, first |-> Unset, last |-> Unset, suffix |-> Unset]
    /\ solve_call = NoSolve
    /\ alias_call = <<>>
    /\ NCIdle /\ AbbrIdle /\ ChkIdle

Solve(full_name) ==
    \E r \in {solve(universe, alias_df, wiz, full_name)} :
       /\ wiz' = r.wiz
       /\ solve_call' = [op |-> "solve", arg |-> full_name, outcome |-> r.outcome,
                         ret |-> r.ret, tested |-> r.tested]
       /\ UNCHANGED <<universe, alias_df, alias_call>>
       /\ UNCHANGED <<nc_vars, abbr_vars, chk_vars, util_vars>>

NextSolve == \E full_name \in SolveInputs : Solve(full_name)

SpecSolve == InitSolve /\ [][NextSolve]_vars


-----------------------------------------------------------------------------
(* Claims about MostSimilarNameWizard.solve                                *)

Solved == solve_call.op = "solve"
\* The last call decomposed its argument.
Decomposed ==
    /\ Solved
    /\ ~InList(solve_call.arg, universe)
    /\ solve_call.outcome # "AttributeError"
    /\ wiz.name = solve_call.arg

\* C6: solve(x) of a universe member x returns x after the membership test
\* alone, without decomposing x (the instance attributes stay as they were),
\* also for a member that does not parse; and a name returned by solve is
\* returned unchanged when solved again.
C6_SolveIdempotentOnCanonical ==
    [][solve_call'.op = "solve"
         => /\ InList(solve_call'.arg, universe)
                 => /\ solve_call'.outcome = "return"
                    /\ solve_call'.ret = solve_call'.arg
                    /\ solve_call'.tested = <<solve_call'.arg>>
                    /\ wiz' = wiz
            /\ solve_call'.outcome = "return"
                 => LET again == solve(universe', alias_df', wiz', solve_call'.ret)
                    IN /\ again.outcome = "return"
                       /\ again.ret = solve_call'.ret
                       /\ again.wiz = wiz']_vars

C6_Witness ==
    /\ Solved
    /\ solve_call.arg = nSmith
    /\ InList(nSmith, universe)
    /\ solve_call.outcome = "return"
    /\ solve_call.ret = nSmith
    /\ wiz.first = wJohn

IsTwoCapitals(f) == Len(f) = 2 /\ f[1] \in Upper /\ f[2] \in Upper
IsTwoCapitalsPeriods(f) ==
    Len(f) = 4 /\ f[1] \in Upper /\ f[2] = "." /\ f[3] \in Upper /\ f[4] = "."

RewriteOnly(new_name) ==
    /\ solve_call.tested = <<solve_call.arg, new_name>>
    /\ IF InList(new_name, universe)
       THEN solve_call.outcome = "return" /\ solve_call.ret = new_name
       ELSE solve_call.outcome = "PMissingError"

\* C8: for a name not in the universe with first name "CJ", solve tests
\* "C.J. Last" and nothing else; with first name "C.J." it tests "CJ Last" and
\* nothing else; it returns the rewritten name if the universe holds it and
\* raises PMissingError otherwise.
C8_InitialsRewriteOrFail ==
    Decomposed =>
        /\ IsTwoCapitals(wiz.first)
             => RewriteOnly(<<wiz.first[1], ".", wiz.first[2], ".", " ">> \o wiz.last)
        /\ IsTwoCapitalsPeriods(wiz.first)
             => RewriteOnly(<<wiz.first[1], wiz.first[3], " ">> \o wiz.last)

\* "C.J. Smith" against a universe holding only "Chris Smith", with "C.J." a
\* known nickname of "Chris": the call fails.
C8_Witness ==
    /\ Solved
    /\ solve_call.arg = nCdJdSmith
    /\ universe = <<nChrisSmith>>
    /\ InList(wChris, get_aliases(alias_df, wCdJd).list)
    /\ solve_call.outcome = "PMissingError"
    /\ solve_call.tested = <<nCdJdSmith, nCJSmith>>

\* The case of C9: a parsed name outside the universe, not of an initials
\* shape, without suffix, whose apostrophe-stripped variants are not in the
\* universe, and whose last name is A-B.
HyphenCase ==
    /\ Decomposed
    /\ ~rgx_abbr_no_periods(wiz.first)
    /\ ~rgx_abbr_periods(wiz.first)
    /\ wiz.suffix = None
    /\ \A i \in 1..Len(ApostropheCandidates(wiz.first, wiz.last)) :
          ~InList(ApostropheCandidates(wiz.first, wiz.last)[i], universe)
    /\ Len(Split(wiz.last, "-")) = 2

\* C9: in that case solve returns "First A" if the universe holds it,
\* otherwise "First B" if the universe holds it.
C9_HyphenComponentsLeftToRight ==
    HyphenCase =>
        LET A == wiz.first \o SP \o Split(wiz.last, "-")[1]
            B == wiz.first \o SP \o Split(wiz.last, "-")[2]
        IN /\ InList(A, universe)
                => solve_call.outcome = "return" /\ solve_call.ret = A
           /\ (~InList(A, universe) /\ InList(B, universe))
                => solve_call.outcome = "return" /\ solve_call.ret = B

C9_Witness ==
    /\ Solved
    /\ solve_call.arg = nJohnHyph
    /\ universe = <<nJohnJones, nJohnSmith>>
    /\ solve_call.outcome = "return"
    /\ solve_call.ret = nJohnSmith


-----------------------------------------------------------------------------
(* Edit distance                                                           *)

Min3(a, b, c) == Min(a, Min(b, c))

\* The row 0, 1, ..., n of the distance table.
RECURSIVE FirstRow(_)
FirstRow(n) == IF n = 0 THEN <<0>> ELSE Append(FirstRow(n - 1), n)

\* The row of character c, filled from the left, from the row above it.
RECURSIVE FillRow(_, _, _, _)
FillRow(prev, c, t, acc) ==
    IF Len(acc) = Len(prev) THEN acc
    ELSE LET j == Len(acc)
             sub == prev[j] + (IF c = t[j] THEN 0 ELSE 1)
         IN FillRow(prev, c, t,
                    Append(acc, Min3(prev[j + 1] + 1, acc[j] + 1, sub)))

RECURSIVE LastRow(_, _, _)
LastRow(s, t, row) ==
    IF s = <<>> THEN row
    ELSE LastRow(Tail(s), t, FillRow(row, Head(s), t, <<row[1] + 1>>))

\* nltk.metrics.distance.edit_distance(s, t): the Levenshtein distance with
\* unit costs and no transpositions.
edit_distance(s, t) == LastRow(s, t, FirstRow(Len(t)))[Len(t) + 1]

\* list.sort(key=itemgetter(1)): stable insertion by distance.
RECURSIVE InsertByDist(_, _)
InsertByDist(sorted, x) ==
    IF sorted = <<>> THEN <<x>>
    ELSE IF x[2] < Head(sorted)[2] THEN <<x>> \o sorted
    ELSE <<Head(sorted)>> \o InsertByDist(Tail(sorted), x)

RECURSIVE SortByDist(_, _)
SortByDist(list, acc) ==
    IF list = <<>> THEN acc
    ELSE SortByDist(Tail(list), InsertByDist(acc, Head(list)))

RECURSIVE Distances(_, _)
Distances(ref_name, other_names) ==
    IF other_names = <<>> THEN <<>>
    ELSE <<<<Head(other_names), edit_distance(Head(other_names), ref_name)>>>>
         \o Distances(ref_name, Tail(other_names))

\* name_edit_distances: the pairs (name, distance), nearest first.
name_edit_distances(ref_name, other_names) ==
    SortByDist(Distances(ref_name, other_names), <<>>)

-----------------------------------------------------------------------------
(* Name and AbbreviatedNameWizard                                          *)

\* Name.__init__: the name is stripped, then matched; the match failing,
\* m.group raises AttributeError.
Name(full_name) ==
    LET m == rgx_full_name(Strip(full_name))
    IN [ok |-> m.ok, full_name |-> Strip(full_name), first |-> m.first,
        last |-> m.last, suffix |-> m.suffix]

\* create_name_objects: the names that fail to construct are skipped.
RECURSIVE create_name_objects(_)
create_name_objects(names) ==
    IF names = <<>> THEN <<>>
    ELSE LET n == Name(Head(names))
         IN (IF n.ok THEN <<[full_name |-> n.full_name, first |-> n.first,
                             last |-> n.last, suffix |-> n.suffix]>>
             ELSE <<>>)
            \o create_name_objects(Tail(names))

\* The loop of full_name over name_objs: the first object with the last name
\* and the first initial asked for.
RECURSIVE FirstInitialMatch(_, _, _)
FirstInitialMatch(objs, first_init, last_name) ==
    IF objs = <<>> THEN [found |-> FALSE, full_name |-> <<>>]
    ELSE IF Head(objs).last # last_name
    THEN FirstInitialMatch(Tail(objs), first_init, last_name)
    ELSE IF Head(objs).first[1] = first_init
    THEN [found |-> TRUE, full_name |-> Head(objs).full_name]
    ELSE FirstInitialMatch(Tail(objs), first_init, last_name)

\* dict[key] = value
Store(dict, key, value) ==
    [k \in DOMAIN dict \cup {key} |-> IF k = key THEN value ELSE dict[k]]

\* Mutant: the fallback returns its result without recording it.
fullNameNoLog(raw, objs, used, abbrev) ==
    IF abbrev = <<>>
    THEN [outcome |-> "IndexError", ret |-> <<>>, used |-> used, fallback |-> FALSE]
    ELSE LET hit == FirstInitialMatch(objs, abbrev[1], SliceFrom(abbrev, 3))
         IN IF hit.found
            THEN [outcome |-> "return", ret |-> hit.full_name, used |-> used,
                  fallback |-> FALSE]
            ELSE IF raw = <<>>
            THEN [outcome |-> "IndexError", ret |-> <<>>, used |-> used,
                  fallback |-> TRUE]
            ELSE [outcome |-> "return", ret |-> name_edit_distances(abbrev, raw)[1][1],
                  used |-> used, fallback |-> TRUE]

\* AbbreviatedNameWizard.full_name: the outcome and the new used_levenshtein.
\* abbrev[0] of an empty abbrev and edit_distances[0] of an empty universe
\* raise IndexError.
full_name(raw, objs, used, abbrev) ==
    IF abbrev = <<>>
    THEN [outcome |-> "IndexError", ret |-> <<>>, used |-> used, fallback |-> FALSE]
    ELSE LET hit == FirstInitialMatch(objs, abbrev[1], SliceFrom(abbrev, 3))
         IN IF hit.found
            THEN [outcome |-> "return", ret |-> hit.full_name, used |-> used,
                  fallback |-> FALSE]
            ELSE IF raw = <<>>
            THEN [outcome |-> "IndexError", ret |-> <<>>, used |-> used,
                  fallback |-> TRUE]
            ELSE LET result == name_edit_distances(abbrev, raw)[1][1]
                 IN [outcome |-> "return", ret |-> result,
                     used |-> Store(used, abbrev, result), fallback |-> TRUE]

\* AbbreviatedNameWizard.used_levenshtein_count
used_levenshtein_count == Cardinality(DOMAIN used_levenshtein)

Abbrev(initial, last) == <<initial, ".", " ">> \o last

AbbrUniversePool == {nJohnSmith, nPadded, nJonSmith, nJohnJones, nChrisSmith, nSmith}
Abbrevs == {Abbrev("J", wSmith), Abbrev("J", wJones), Abbrev("C", wSmith),
            Abbrev("K", wJones), <<"J", ".", " ", "S">>, <<"J", ".">>, <<>>}

NoAbbr == [op |-> "none", arg |-> <<>>, outcome |-> "none", ret |-> <<>>,
           fallback |-> FALSE]

\* AbbreviatedNameWizard.__init__
InitAbbr ==
    /\ UtilIdle
    /\ raw_names \in ListsUpTo(AbbrUniversePool, MaxUniverse)
    /\ name_objs = create_name_objects(raw_names)
    /\ used_levenshtein = <<>>
    /\ abbr_call = NoAbbr
    /\ NCIdle /\ WizIdle /\ ChkIdle

FullName(abbrev) ==
    \E r \in {full_name(raw_names, name_objs, used_levenshtein, abbrev)} :
       /\ used_levenshtein' = r.used
       /\ abbr_call' = [op |-> "full_name", arg |-> abbrev, outcome |-> r.outcome,
                        ret |-> r.ret, fallback |-> r.fallback]
       /\ UNCHANGED <<raw_names, name_objs>>
       /\ UNCHANGED <<nc_vars, wiz_vars, chk_vars, util_vars>>

NextAbbr == \E abbrev \in Abbrevs : FullName(abbrev)

SpecAbbr == InitAbbr /\ [][NextAbbr]_vars

-----------------------------------------------------------------------------
(* Claims about AbbreviatedNameWizard                                      *)

\* C5: for a non-empty universe and an abbreviation of at least 4 characters,
\* full_name does not raise and returns a member of the universe.
C5_FullNameReturnsUniverseMember ==
    (abbr_call.op = "full_name" /\ raw_names # <<>> /\ Len(abbr_call.arg) >= 4)
        => /\ abbr_call.outcome = "return"
           /\ InList(abbr_call.ret, raw_names)


-----------------------------------------------------------------------------
(* DBIntegrityCheck: the team table                                        *)

\* Boundary constraints.
MAX_OPEN_SPREAD == 25
MAX_OPEN_PTS == 250
MIN_OPEN_PTS == 150
MAX_LEVENSHTEIN == 4

Abs(x) == IF x < 0 THEN -x ELSE x

\* DBIntegrityCheck._log: the row appended to err_log.
LogRow(tbl, info, data_id) == [table |-> tbl, id |-> data_id, info |-> info]

\* 'gid = {}'.format(gid)
GidId(gid) == <<"gid = ", gid>>

\* Mutant: the return after log('2 home teams') is missing.
inspectGidGrpNoReturn(grp, gid) ==
    LET log(x) == LogRow("TStats", x, GidId(gid))
        row1 == grp[1]
        row2 == grp[2]
        rest ==
            IF ~row1.home /\ ~row2.home THEN <<log("2 away teams")>>
            ELSE IF row1.ot # row2.ot THEN <<log("OT periods different")>>
            ELSE IF row1.open_spread # -row2.open_spread
            THEN <<log("open_spread not negative versions of each other")>>
            ELSE IF Abs(row1.open_spread) > MAX_OPEN_SPREAD
            THEN <<log("open_spread > MAX_OPEN_SPREAD")>>
            ELSE IF row1.open_pts # row2.open_pts THEN <<log("open_pts different")>>
            ELSE IF row1.open_pts > MAX_OPEN_PTS \/ row1.open_pts < MIN_OPEN_PTS
            THEN <<log("open_pts outside boundaries")>>
            ELSE <<>>
    IN IF Len(grp) # 2 THEN <<log("Row count != 2")>>
       ELSE IF row1.gd # row2.gd THEN <<log("gd count != 1")>>
       ELSE IF row1.team # row2.opp \/ row1.opp # row2.team
       THEN <<log("opp/team mismatch")>>
       ELSE IF row1.home /\ row2.home THEN <<log("2 home teams")>> \o rest
       ELSE rest

\* Mutant: the spread negation is checked before the overtime periods.
inspectGidGrpSpreadBeforeOt(grp, gid) ==
    LET log(x) == LogRow("TStats", x, GidId(gid))
        row1 == grp[1]
        row2 == grp[2]
    IN IF Len(grp) # 2 THEN <<log("Row count != 2")>>
       ELSE IF row1.gd # row2.gd THEN <<log("gd count != 1")>>
       ELSE IF row1.team # row2.opp \/ row1.opp # row2.team
       THEN <<log("opp/team mismatch")>>
       ELSE IF row1.home /\ row2.home THEN <<log("2 home teams")>>
       ELSE IF ~row1.home /\ ~row2.home THEN <<log("2 away teams")>>
       ELSE IF row1.open_spread # -row2.open_spread
       THEN <<log("open_spread not negative versions of each other")>>
       ELSE IF row1.ot # row2.ot THEN <<log("OT periods different")>>
       ELSE IF Abs(row1.open_spread) > MAX_OPEN_SPREAD
       THEN <<log("open_spread > MAX_OPEN_SPREAD")>>
       ELSE IF row1.open_pts # row2.open_pts THEN <<log("open_pts different")>>
       ELSE IF row1.open_pts > MAX_OPEN_PTS \/ row1.open_pts < MIN_OPEN_PTS
       THEN <<log("open_pts outside boundaries")>>
       ELSE <<>>

\* Mutant: the bounds of the opening spread and total are exclusive.
inspectGidGrpExclusiveBounds(grp, gid) ==
    LET log(x) == LogRow("TStats", x, GidId(gid))
        row1 == grp[1]
        row2 == grp[2]
    IN IF Len(grp) # 2 THEN <<log("Row count != 2")>>
       ELSE IF row1.gd # row2.gd THEN <<log("gd count != 1")>>
       ELSE IF row1.team # row2.opp \/ row1.opp # row2.team
       THEN <<log("opp/team mismatch")>>
       ELSE IF row1.home /\ row2.home THEN <<log("2 home teams")>>
       ELSE IF ~row1.home /\ ~row2.home THEN <<log("2 away teams")>>
       ELSE IF row1.ot # row2.ot THEN <<log("OT periods different")>>
       ELSE IF row1.open_spread # -row2.open_spread
       THEN <<log("open_spread not negative versions of each other")>>
       ELSE IF Abs(row1.open_spread) >= MAX_OPEN_SPREAD
       THEN <<log("open_spread > MAX_OPEN_SPREAD")>>
       ELSE IF row1.open_pts # row2.open_pts THEN <<log("open_pts different")>>
       ELSE IF row1.open_pts >= MAX_OPEN_PTS \/ row1.open_pts <= MIN_OPEN_PTS
       THEN <<log("open_pts outside boundaries")>>
       ELSE <<>>

\* DBIntegrityCheck.__inspect_gid_grp: the rows it appends to err_log.
inspect_gid_grp(grp, gid) ==
    LET log(x) == LogRow("TStats", x, GidId(gid))
        row1 == grp[1]
        row2 == grp[2]
    IN IF Len(grp) # 2 THEN <<log("Row count != 2")>>
       ELSE IF row1.gd # row2.gd THEN <<log("gd count != 1")>>
       ELSE IF row1.team # row2.opp \/ row1.opp # row2.team
       THEN <<log("opp/team mismatch")>>
       ELSE IF row1.home /\ row2.home THEN <<log("2 home teams")>>
       ELSE IF ~row1.home /\ ~row2.home THEN <<log("2 away teams")>>
       ELSE IF row1.ot # row2.ot THEN <<log("OT periods different")>>
       ELSE IF row1.open_spread # -row2.open_spread
       THEN <<log("open_spread not negative versions of each other")>>
       ELSE IF Abs(row1.open_spread) > MAX_OPEN_SPREAD
       THEN <<log("open_spread > MAX_OPEN_SPREAD")>>
       ELSE IF row1.open_pts # row2.open_pts THEN <<log("open_pts different")>>
       ELSE IF row1.open_pts > MAX_OPEN_PTS \/ row1.open_pts < MIN_OPEN_PTS
       THEN <<log("open_pts outside boundaries")>>
       ELSE <<>>

\* The rows of a group of tstats.groupby('gid'), in table order.
RowsOfGid(table, gid) == SelectSeq(table, LAMBDA r : r.gid = gid)

\* The group keys of tstats.groupby('gid'), in ascending order.
RECURSIVE Ascending(_)
Ascending(S) ==
    IF S = {} THEN <<>>
    ELSE LET m == CHOOSE x \in S : \A y \in S : x <= y
         IN <<m>> \o Ascending(S \ {m})

GidKeys(table) == Ascending({table[i].gid : i \in 1..Len(table)})

\* DBIntegrityCheck.inspect_tstats: err_log after the loop over the groups.
RECURSIVE InspectGroups(_, _, _)
InspectGroups(table, keys, log) ==
    IF keys = <<>> THEN log
    ELSE InspectGroups(table, Tail(keys),
                       log \o inspect_gid_grp(RowsOfGid(table, Head(keys)), Head(keys)))

inspect_tstats(table, log) == InspectGroups(table, GidKeys(table), log)

\* The team tables of the model: two consistent games, after at most
\* MaxDeviations changes of one field of one row.
MaxDeviations == 2

Gids == <<1, 2>>
Gds == <<1, 2>>
Teams == <<"A", "B">>
Homes == <<TRUE, FALSE>>
Ots == <<0, 1>>
Spreads == <<-26, -25, -3, 3, 25, 26>>
Points == <<149, 150, 210, 250, 251>>

TRow(gid, gd, team, opp, home, ot, spread, pts) ==
    [gid |-> gid, gd |-> gd, team |-> team, opp |-> opp, home |-> home,
     ot |-> ot, open_spread |-> spread, open_pts |-> pts]

ConsistentTable ==
    <<TRow(1, 1, "A", "B", TRUE, 0, -3, 210),
      TRow(2, 2, "B", "A", TRUE, 1, 25, 150),
      TRow(1, 1, "B", "A", FALSE, 0, 3, 210),
      TRow(2, 2, "A", "B", FALSE, 1, -25, 150)>>

\* A change of one field of one row: the row, the field and the index of the
\* new value among the values of the field.
Fields == <<"gid", "gd", "team", "opp", "home", "ot", "open_spread", "open_pts">>
ValuesOf(f) ==
    CASE f = "gid" -> Gids [] f = "gd" -> Gds [] f = "team" -> Teams
      [] f = "opp" -> Teams [] f = "home" -> Homes [] f = "ot" -> Ots
      [] f = "open_spread" -> Spreads [] f = "open_pts" -> Points

Changes ==
    {c \in [row : 1..Len(ConsistentTable), field : 1..Len(Fields), idx : 1..6] :
        c.idx <= Len(ValuesOf(Fields[c.field]))}

Changed(t, c) ==
    [t EXCEPT ![c.row] =
        [f \in DOMAIN t[c.row] |->
            IF f = Fields[c.field] THEN ValuesOf(f)[c.idx] ELSE t[c.row][f]]]

RECURSIVE ChangedBy(_, _)
ChangedBy(t, cs) ==
    IF cs = <<>> THEN t ELSE ChangedBy(Changed(t, Head(cs)), Tail(cs))

NoInspection == [op |-> "none"]

\* DBIntegrityCheck.__init__: the snapshot as loaded and an empty err_log.
InitTStats ==
    /\ UtilIdle
    /\ \E cs \in [1..MaxDeviations -> Changes] : tstats = ChangedBy(ConsistentTable, cs)
    /\ err_log = <<>>
    /\ chk_call = NoInspection
    /\ ChkRestIdle
    /\ NCIdle /\ WizIdle /\ AbbrIdle

\* inspect_tstats, run once in a session (run(), lines 51-57).
InspectTStats ==
    /\ chk_call.op = "none"
    /\ err_log' = inspect_tstats(tstats, err_log)
    /\ chk_call' = [op |-> "inspect_tstats"]
    /\ UNCHANGED <<tstats, pstats, inj, news, name_log, known_sim_names, report>>
    /\ UNCHANGED <<nc_vars, wiz_vars, abbr_vars, util_vars>>

NextTStats == InspectTStats

SpecTStats == InitTStats /\ [][NextTStats]_vars

-----------------------------------------------------------------------------
(* Claims about the team-pair checklist                                    *)

EntriesOfGid(gid) == SelectSeq(err_log, LAMBDA e : e.id = GidId(gid))

\* A group of two rows of one game date, symmetric in team and opponent.
SymmetricPair(grp) ==
    /\ Len(grp) = 2
    /\ grp[1].gd = grp[2].gd
    /\ grp[1].team = grp[2].opp
    /\ grp[1].opp = grp[2].team

\* The pair of the claim: overtime counts equal, opening spreads -3 and 3,
\* opening totals 210 and 210.
ExamplePair(grp) ==
    /\ SymmetricPair(grp)
    /\ grp[1].ot = grp[2].ot
    /\ {grp[1].open_spread, grp[2].open_spread} = {-3, 3}
    /\ grp[1].open_pts = 210 /\ grp[2].open_pts = 210

\* C10: after inspect_tstats, a group that is the example pair with one home
\* and one away row has no entry in err_log; a symmetric pair with both rows
\* flagged home (the example pair, and any other overtime, spread and total
\* values) has exactly one entry, '2 home teams'.
C10_TwoHomeTeamsOnly ==
    chk_call.op = "inspect_tstats" =>
        \A gid \in {1, 2} :
            LET grp == RowsOfGid(tstats, gid)
            IN /\ (ExamplePair(grp) /\ grp[1].home # grp[2].home)
                    => EntriesOfGid(gid) = <<>>
               /\ (SymmetricPair(grp) /\ grp[1].home /\ grp[2].home)
                    => EntriesOfGid(gid) = <<LogRow("TStats", "2 home teams", GidId(gid))>>

C10_Witness ==
    /\ chk_call.op = "inspect_tstats"
    /\ ExamplePair(RowsOfGid(tstats, 1))
    /\ RowsOfGid(tstats, 1)[1].home /\ RowsOfGid(tstats, 1)[2].home
    /\ err_log = <<LogRow("TStats", "2 home teams", GidId(1))>>

\* The checks of a game-identifier group in the order of the checklist, each
\* stated on its own: whether it fails for the group, and its description.
\* A check on the pair of rows is not applicable to a group that is no pair.
PairCheckFails(grp, k) ==
    CASE k = 1 -> Len(grp) # 2
      [] k = 2 -> Len(grp) = 2 /\ grp[1].gd # grp[2].gd
      [] k = 3 -> Len(grp) = 2 /\ (grp[1].team # grp[2].opp \/ grp[1].opp # grp[2].team)
      [] k = 4 -> Len(grp) = 2 /\ grp[1].home /\ grp[2].home
      [] k = 5 -> Len(grp) = 2 /\ ~grp[1].home /\ ~grp[2].home
      [] k = 6 -> Len(grp) = 2 /\ grp[1].ot # grp[2].ot
      [] k = 7 -> Len(grp) = 2 /\ grp[1].open_spread + grp[2].open_spread # 0
      [] k = 8 -> Len(grp) = 2 /\ (\E i \in 1..2 : grp[i].open_spread > 25
                                                    \/ grp[i].open_spread < -25)
      [] k = 9 -> Len(grp) = 2 /\ grp[1].open_pts # grp[2].open_pts
      [] k = 10 -> Len(grp) = 2 /\ (\E i \in 1..2 : grp[i].open_pts > 250
                                                     \/ grp[i].open_pts < 150)

PairCheckInfo ==
    <<"Row count != 2", "gd count != 1", "opp/team mismatch", "2 home teams",
      "2 away teams", "OT periods different",
      "open_spread not negative versions of each other",
      "open_spread > MAX_OPEN_SPREAD", "open_pts different",
      "open_pts outside boundaries">>

FailingPairChecks(grp) == {k \in 1..Len(PairCheckInfo) : PairCheckFails(grp, k)}

\* C11: after inspect_tstats, every game-identifier group has at most one
\* entry in err_log, and a group with a failing check has the entry of its
\* earliest failing check in the order row count, same date, team/opponent
\* symmetry, home/away, overtime, spread negation, spread bound, total
\* equality, total range.
C11_FirstFailingCheckOnly ==
    chk_call.op = "inspect_tstats" =>
        \A gid \in {tstats[i].gid : i \in 1..Len(tstats)} :
            LET grp == RowsOfGid(tstats, gid)
                failing == FailingPairChecks(grp)
            IN /\ Len(EntriesOfGid(gid)) <= 1
               /\ failing # {}
                    => \E k \in failing :
                          /\ \A j \in failing : k <= j
                          /\ EntriesOfGid(gid)
                               = <<LogRow("TStats", PairCheckInfo[k], GidId(gid))>>

\* A pair with two home rows and different overtime periods: two checks fail,
\* one entry is logged.
C11_Witness ==
    /\ chk_call.op = "inspect_tstats"
    /\ {4, 6} \subseteq FailingPairChecks(RowsOfGid(tstats, 1))
    /\ EntriesOfGid(1) = <<LogRow("TStats", "2 home teams", GidId(1))>>

\* The conditions of a consistent game-identifier group, as the checklist
\* states them.
ConsistentPair(grp) ==
    /\ Len(grp) = 2
    /\ grp[1].gd = grp[2].gd
    /\ grp[1].team = grp[2].opp /\ grp[2].team = grp[1].opp
    /\ Cardinality({i \in 1..2 : grp[i].home}) = 1
    /\ grp[1].ot = grp[2].ot
    /\ grp[1].open_spread = 0 - grp[2].open_spread
    /\ grp[1].open_spread \in -25..25
    /\ grp[1].open_pts = grp[2].open_pts
    /\ grp[1].open_pts \in 150..250

\* C24: after inspect_tstats, a game-identifier group has no entry in
\* err_log if and only if it has exactly two rows of one game date, each
\* row's team the other's opponent, exactly one row flagged home, equal
\* overtime counts, opening spreads that are negations of each other and at
\* most 25 in magnitude, and equal opening totals within 150..250.
C24_NoEntryIffConsistentPair ==
    chk_call.op = "inspect_tstats" =>
        \A gid \in {tstats[i].gid : i \in 1..Len(tstats)} :
            EntriesOfGid(gid) = <<>> <=> ConsistentPair(RowsOfGid(tstats, gid))

\* The boundary values: spreads of magnitude 25 and totals of 150 pass in one
\* group, a total of 251 fails in the other.
C24_Witness ==
    /\ chk_call.op = "inspect_tstats"
    /\ Len(RowsOfGid(tstats, 2)) = 2
    /\ RowsOfGid(tstats, 2)[1].open_spread = 25
    /\ RowsOfGid(tstats, 2)[1].open_pts = 150
    /\ EntriesOfGid(2) = <<>>
    /\ Len(RowsOfGid(tstats, 1)) = 2
    /\ RowsOfGid(tstats, 1)[1].open_pts = 251
    /\ RowsOfGid(tstats, 1)[2].open_pts = 251
    /\ EntriesOfGid(1) = <<LogRow("TStats", "open_pts outside boundaries", GidId(1))>>

\* Spreads of magnitude 26 fail, totals of 250 pass.
C24_WitnessSpread ==
    /\ chk_call.op = "inspect_tstats"
    /\ Len(RowsOfGid(tstats, 1)) = 2
    /\ RowsOfGid(tstats, 1)[1].open_spread = -26
    /\ RowsOfGid(tstats, 1)[2].open_spread = 26
    /\ EntriesOfGid(1) = <<LogRow("TStats", "open_spread > MAX_OPEN_SPREAD", GidId(1))>>

-----------------------------------------------------------------------------
(* DBIntegrityCheck: near-duplicate player names                           *)

\* A row of the player table.
PRow(gd, team, opp, gid, tsid, player, starter) ==
    [gd |-> gd, team |-> team, opp |-> opp, gid |-> gid, tsid |-> tsid,
     player |-> player, starter |-> starter]

\* df['player'].tolist()
RECURSIVE Players(_)
Players(table) ==
    IF table = <<>> THEN <<>> ELSE <<Head(table).player>> \o Players(Tail(table))

\* collections.Counter(q): the number of occurrences of each element.
Counter(q) ==
    [x \in {q[i] : i \in 1..Len(q)} |-> Cardinality({i \in 1..Len(q) : q[i] = x})]

\* data_utils.sequences_equal(a, b, order=False)
sequences_equal(a, b) == Counter(a) = Counter(b)

\* DBIntegrityCheck._names_are_equiv
RECURSIVE names_are_equiv(_, _, _)
names_are_equiv(known_pairs_list, a, b) ==
    IF known_pairs_list = <<>> THEN FALSE
    ELSE IF sequences_equal(<<a, b>>, Head(known_pairs_list)) THEN TRUE
    ELSE names_are_equiv(Tail(known_pairs_list), a, b)

\* The characters of the model in code point order, for the comparison of str.
CodePoints ==
    <<" ", "'", ",", "-", ".",
      "A", "B", "C", "D", "E", "F", "G", "H", "I", "J", "K", "L", "M",
      "N", "O", "P", "Q", "R", "S", "T", "U", "V", "W", "X", "Y", "Z",
      "a", "b", "c", "d", "e", "f", "g", "h", "i", "j", "k", "l", "m",
      "n", "o", "p", "q", "r", "s", "t", "u", "v", "w", "x", "y", "z">>

Ord(c) == CHOOSE i \in 1..Len(CodePoints) : CodePoints[i] = c

\* a < b of two str
RECURSIVE StrLess(_, _)
StrLess(a, b) ==
    IF b = <<>> THEN FALSE
    ELSE IF a = <<>> THEN TRUE
    ELSE IF Head(a) = Head(b) THEN StrLess(Tail(a), Tail(b))
    ELSE Ord(Head(a)) < Ord(Head(b))

\* name_log.sort_values(by='name1', ascending=False): rows of equal name1
\* keep their order.
RECURSIVE InsertByName1Desc(_, _)
InsertByName1Desc(sorted, row) ==
    IF sorted = <<>> THEN <<row>>
    ELSE IF StrLess(Head(sorted).name1, row.name1) THEN <<row>> \o sorted
    ELSE <<Head(sorted)>> \o InsertByName1Desc(Tail(sorted), row)

RECURSIVE SortByName1Desc(_, _)
SortByName1Desc(log, acc) ==
    IF log = <<>> THEN acc
    ELSE SortByName1Desc(Tail(log), InsertByName1Desc(acc, Head(log)))

\* Mutant: a pair is skipped only if it is pre-approved in the order (a, b).
namesLoggedOrdered(known_pairs_list, ref_name, distances) ==
    LET keep(x) == /\ x[2] < MAX_LEVENSHTEIN
                   /\ ~InList(<<ref_name, x[1]>>, known_pairs_list)
        kept == SelectSeq(distances, keep)
    IN [i \in 1..Len(kept) |->
          [name1 |-> ref_name, name2 |-> kept[i][1], dist |-> kept[i][2]]]

\* Lines 68-75: the rows appended to name_log for one reference name.
NamesLogged(known_pairs_list, ref_name, distances) ==
    LET keep(x) == /\ x[2] < MAX_LEVENSHTEIN
                   /\ ~names_are_equiv(known_pairs_list, ref_name, x[1])
        kept == SelectSeq(distances, keep)
    IN [i \in 1..Len(kept) |->
          [name1 |-> ref_name, name2 |-> kept[i][1], dist |-> kept[i][2]]]

\* The loop of lines 65-75 over uniq_names[:-1], from position i on.
RECURSIVE ScanNames(_, _, _, _)
ScanNames(uniq_names, known_pairs_list, i, log) ==
    IF i >= Len(uniq_names) THEN log
    ELSE ScanNames(uniq_names, known_pairs_list, i + 1,
                   log \o NamesLogged(known_pairs_list, uniq_names[i],
                                      name_edit_distances(uniq_names[i],
                                          SubSeq(uniq_names, i + 1, Len(uniq_names)))))

\* DBIntegrityCheck.inspect_pstats_names: name_log after the call.
inspect_pstats_names(table, known_pairs_list, log) ==
    SortByName1Desc(ScanNames(Unique(Players(table)), known_pairs_list, 1, log), <<>>)

\* Bound of the rows of the player table of a name scan.
MaxPlayers == 3

wJoan  == <<"J", "o", "a", "n">>
wSmyth == <<"S", "m", "y", "t", "h">>
wSmits == <<"S", "m", "i", "t", "s">>
nJoanSmyth == wJoan \o SP \o wSmyth
nJohnSmits == wJohn \o SP \o wSmits

PlayerPool == {nJonSmith, nJohnSmith, nJoanSmyth, nJohnSmits, nSmith, nJohnJones}

KnownSimilarLists ==
    {<<>>, <<<<nJonSmith, nJohnSmith>>>>, <<<<nJohnSmith, nJonSmith>>>>,
     <<<<nJohnSmith, nJohnJones>>, <<nJoanSmyth, nJohnSmith>>>>}

\* The rows of one team on one game date with the given players.
RECURSIVE PlayerRows(_)
PlayerRows(names) ==
    IF names = <<>> THEN <<>>
    ELSE <<PRow(1, "A", "B", 1, 1, Head(names), TRUE)>> \o PlayerRows(Tail(names))

\* DBIntegrityCheck.__init__, for the name scan.
InitPNames ==
    /\ UtilIdle
    /\ \E names \in ListsUpTo(PlayerPool, MaxPlayers) : pstats = PlayerRows(names)
    /\ known_sim_names \in KnownSimilarLists
    /\ name_log = <<>>
    /\ err_log = <<>>
    /\ chk_call = NoInspection
    /\ tstats = <<>> /\ inj = <<>> /\ news = <<>> /\ report = <<>>
    /\ NCIdle /\ WizIdle /\ AbbrIdle

\* inspect_pstats_names, run once in a session (run(), lines 51-57).
InspectPStatsNames ==
    /\ chk_call.op = "none"
    /\ name_log' = inspect_pstats_names(pstats, known_sim_names, name_log)
    /\ chk_call' = [op |-> "inspect_pstats_names"]
    /\ UNCHANGED <<tstats, err_log, pstats, inj, news, known_sim_names, report>>
    /\ UNCHANGED <<nc_vars, wiz_vars, abbr_vars, util_vars>>

NextPNames == InspectPStatsNames

SpecPNames == InitPNames /\ [][NextPNames]_vars

-----------------------------------------------------------------------------
(* Claims about the near-duplicate name log                                *)

\* The player names of the table, a name of several rows once.
UniqueNames == Unique(Players(pstats))

PositionIn(list, x) == CHOOSE i \in 1..Len(list) : list[i] = x

PreApproved(a, b) ==
    InList(<<a, b>>, known_sim_names) \/ InList(<<b, a>>, known_sim_names)

\* The entries the name log is to hold.
ExpectedNameEntries ==
    {[name1 |-> a, name2 |-> b, dist |-> edit_distance(a, b)] :
        <<a, b>> \in {p \in {UniqueNames[i] : i \in 1..Len(UniqueNames)}
                              \X {UniqueNames[i] : i \in 1..Len(UniqueNames)} :
                         /\ p[1] # p[2]
                         /\ PositionIn(UniqueNames, p[1]) < PositionIn(UniqueNames, p[2])
                         /\ edit_distance(p[1], p[2]) < 4
                         /\ ~PreApproved(p[1], p[2])}}

-----------------------------------------------------------------------------
(* DBIntegrityCheck: the names of the injury and news tables               *)

\* Mutant: the reason is logged as the id and the name as the description.
inspectNamesSwapped(kp, km, k, names, table, log) ==
    LET flagged == SelectSeq(names, LAMBDA n : is_problematic(kp, km, k, n).flag)
    IN [log |-> log \o [i \in 1..Len(flagged) |->
                          LogRow(table, flagged[i],
                                 is_problematic(kp, km, k, flagged[i]).ret)],
        calls |-> names]

\* DBIntegrityCheck.inspect_names_in_table: err_log after the loop and the
\* names passed to is_problematic, in order.
inspect_names_in_table(kp, km, k, names, table, log) ==
    LET flagged == SelectSeq(names, LAMBDA n : is_problematic(kp, km, k, n).flag)
    IN [log |-> log \o [i \in 1..Len(flagged) |->
                          LogRow(table, is_problematic(kp, km, k, flagged[i]).ret,
                                 flagged[i])],
        calls |-> names]

\* Bound of the rows of the injury table and of the news table.
MaxNameRows == 2

\* A row of the injury table or the news table.
NameRow(player) == [player |-> player]

NameTables(n) == UNION {[1..k -> {NameRow(p) : p \in NCNames}] : k \in 0..n}

\* The reference collections of the converter of a checker.
CheckerPairs == {<<>>} \cup {[o \in {nJonSmith} |-> new] : new \in {nJohnSmith, nJonSmith}}
CheckerMissing == SUBSET {<<>>}
CheckerKnown == SUBSET {nJohnSmith, nJonSmith}

\* DBIntegrityCheck.__init__, for the scan of the injury and news names:
\* the converter is NameConverter() in strict mode.
InitNameTables ==
    /\ UtilIdle
    /\ inj \in NameTables(MaxNameRows)
    /\ news \in NameTables(MaxNameRows)
    /\ known_pairs \in CheckerPairs
    /\ known_missing \in CheckerMissing
    /\ known \in CheckerKnown
    /\ unhandled_names = {}
    /\ raise_exc = TRUE
    /\ nc_call = NoCall
    /\ err_log = <<>>
    /\ name_log = <<>>
    /\ chk_call = NoInspection
    /\ tstats = <<>> /\ pstats = <<>> /\ known_sim_names = <<>> /\ report = <<>>
    /\ WizIdle /\ AbbrIdle

InspectNames(op, table, label) ==
    \E r \in {inspect_names_in_table(known_pairs, known_missing, known,
                                     Unique(Players(table)), label, err_log)} :
       /\ err_log' = r.log
       /\ chk_call' = [op |-> op, calls |-> r.calls]
       /\ UNCHANGED <<tstats, pstats, inj, news, name_log, known_sim_names, report>>
       /\ UNCHANGED <<nc_vars, wiz_vars, abbr_vars, util_vars>>

\* inspect_inj_names and inspect_news_names, in the order of run().
InspectInjNames ==
    /\ chk_call.op = "none"
    /\ InspectNames("inspect_inj_names", inj, "injuries")

InspectNewsNames ==
    /\ chk_call.op \in {"none", "inspect_inj_names"}
    /\ InspectNames("inspect_news_names", news, "news")

NextNameTables == InspectInjNames \/ InspectNewsNames

SpecNameTables == InitNameTables /\ [][NextNameTables]_vars

-----------------------------------------------------------------------------
(* Claims about the name-table problem scan                                *)

\* The number of positions of a list that hold x.
Occurrences(list, x) == Cardinality({i \in 1..Len(list) : list[i] = x})

\* The scan of a table with a label: every player name of the table is passed
\* to is_problematic once, the entries logged before stay, and the entries
\* added are one (label, name, reason) for each name whose flag is true.
ScannedOnce(table, label) ==
    LET names == {table[i].player : i \in 1..Len(table)}
        added == SubSeq(err_log', Len(err_log) + 1, Len(err_log'))
    IN /\ \A n \in names : Occurrences(chk_call'.calls, n) = 1
       /\ \A i \in 1..Len(chk_call'.calls) : chk_call'.calls[i] \in names
       /\ Len(err_log') >= Len(err_log)
       /\ SubSeq(err_log', 1, Len(err_log)) = err_log
       /\ \A i \in 1..Len(added) : added[i].id \in names
       /\ \A n \in names :
             LET r == is_problematic(known_pairs, known_missing, known, n)
             IN IF r.flag
                THEN /\ Occurrences(added, LogRow(label, r.ret, n)) = 1
                     /\ \A i \in 1..Len(added) :
                           added[i].id = n => added[i] = LogRow(label, r.ret, n)
                ELSE \A i \in 1..Len(added) : added[i].id # n

\* C14: the scan of the injury table and the scan of the news table pass each
\* unique player name to is_problematic exactly once and add to err_log one
\* entry (table 'injuries' or 'news', id the name, info the returned reason)
\* for each unique name whose result is true, and none for the other names.
C14_OneEntryPerProblematicName ==
    [][/\ chk_call'.op = "inspect_inj_names" => ScannedOnce(inj, "injuries")
       /\ chk_call'.op = "inspect_news_names" => ScannedOnce(news, "news")]_vars

\* A news table with two rows of one problematic name, scanned after the
\* injury table logged an entry: one 'news' entry is added.
C14_Witness ==
    /\ chk_call.op = "inspect_news_names"
    /\ Len(news) = 2 /\ news[1] = news[2]
    /\ Len(err_log) = 2
    /\ err_log[1].table = "injuries"
    /\ err_log[2] = LogRow("news", MsgNotInPStats, news[1].player)

-----------------------------------------------------------------------------
(* DBIntegrityCheck: the player table and the whole session                *)

\* 'gd/team grp ({}/{})'.format(gd.strftime('%Y%m%d'), team)
GdTeamId(gd, team) == <<"gd/team grp (", gd, "/", team, ")">>

\* df[col].unique().tolist() of the rows of a table.
ColumnOf(table, col) == Unique([i \in 1..Len(table) |-> table[i][col]])

\* Mutant: every game identifier of the opponent's rows is compared.
oppGidCheckAll(ptable, grp, gd) ==
    LET gids == ColumnOf(grp, "gid")
        opponents == ColumnOf(grp, "opp")
        opp_df == SelectSeq(ptable, LAMBDA r : r.team = opponents[1] /\ r.gd = gd)
        opp_gids == ColumnOf(opp_df, "gid")
    IN IF opp_gids = <<>> THEN "IndexError"
       ELSE IF \E i \in 1..Len(opp_gids) : gids[1] # opp_gids[i] THEN "differs"
       ELSE "same"

\* Lines 199-204: the rows of the opponent on the game date and the first of
\* their game identifiers; opp_gids[0] of an empty list raises IndexError.
OppGidCheck(ptable, grp, gd) ==
    LET gids == ColumnOf(grp, "gid")
        opponents == ColumnOf(grp, "opp")
        opp_df == SelectSeq(ptable, LAMBDA r : r.team = opponents[1] /\ r.gd = gd)
        opp_gids == ColumnOf(opp_df, "gid")
    IN IF opp_gids = <<>> THEN "IndexError"
       ELSE IF gids[1] # opp_gids[1] THEN "differs"
       ELSE "same"

\* Mutant: the link ids are checked before the starters.
inspectTeamGdGroupTsidFirst(ptable, ttable, grp, gd, team) ==
    LET did == GdTeamId(gd, team)
        entry(tbl, info) == [raised |-> FALSE, rows |-> <<LogRow(tbl, info, did)>>]
        tsids == ColumnOf(grp, "tsid")
        trow == SelectSeq(ttable, LAMBDA r : r.id = tsids[1])
    IN IF Len(grp) < 7 THEN entry("PStats", "Row count < 7")
       ELSE IF Len(tsids) # 1 THEN entry("PStats", "tsid count != 1")
       ELSE IF Len(SelectSeq(grp, LAMBDA r : r.starter = TRUE)) # 5
       THEN entry("PStats", "starter count != 5")
       ELSE IF Len(ColumnOf(grp, "gid")) # 1 THEN entry("PStats", "gid count != 1")
       ELSE IF Len(ColumnOf(grp, "opp")) # 1 THEN entry("PStats", "opp count != 1")
       ELSE IF OppGidCheck(ptable, grp, gd) = "IndexError"
       THEN [raised |-> TRUE, rows |-> <<>>]
       ELSE IF OppGidCheck(ptable, grp, gd) = "differs"
       THEN entry("PStats", "opp gid != gid")
       ELSE IF Len(trow) # 1 THEN entry("TStats", "TStats.id = tsid match count != 1")
       ELSE IF gd # trow[1].gd THEN entry("TStats", "TStats.GD != GD")
       ELSE IF trow[1].team # team THEN entry("TStats", "TStats.team != team")
       ELSE IF Len(grp) # Len(ColumnOf(grp, "player"))
       THEN entry("PStats", "Duplicate name")
       ELSE [raised |-> FALSE, rows |-> <<>>]

\* DBIntegrityCheck.__inspect_team_gd_group: whether it raises, and the rows
\* it appends to err_log.
inspect_team_gd_group(ptable, ttable, grp, gd, team) ==
    LET did == GdTeamId(gd, team)
        entry(tbl, info) == [raised |-> FALSE, rows |-> <<LogRow(tbl, info, did)>>]
        tsids == ColumnOf(grp, "tsid")
        trow == SelectSeq(ttable, LAMBDA r : r.id = tsids[1])
    IN IF Len(grp) < 7 THEN entry("PStats", "Row count < 7")
       ELSE IF Len(SelectSeq(grp, LAMBDA r : r.starter = TRUE)) # 5
       THEN entry("PStats", "starter count != 5")
       ELSE IF Len(ColumnOf(grp, "gid")) # 1 THEN entry("PStats", "gid count != 1")
       ELSE IF Len(ColumnOf(grp, "opp")) # 1 THEN entry("PStats", "opp count != 1")
       ELSE IF OppGidCheck(ptable, grp, gd) = "IndexError"
       THEN [raised |-> TRUE, rows |-> <<>>]
       ELSE IF OppGidCheck(ptable, grp, gd) = "differs"
       THEN entry("PStats", "opp gid != gid")
       ELSE IF Len(tsids) # 1 THEN entry("PStats", "tsid count != 1")
       ELSE IF Len(trow) # 1 THEN entry("TStats", "TStats.id = tsid match count != 1")
       ELSE IF gd # trow[1].gd THEN entry("TStats", "TStats.GD != GD")
       ELSE IF trow[1].team # team THEN entry("TStats", "TStats.team != team")
       ELSE IF Len(grp) # Len(ColumnOf(grp, "player"))
       THEN entry("PStats", "Duplicate name")
       ELSE [raised |-> FALSE, rows |-> <<>>]

\* The group keys of pstats.groupby(['gd', 'team']), in ascending order.
RECURSIVE AscendingKeys(_)
AscendingKeys(S) ==
    IF S = {} THEN <<>>
    ELSE LET m == CHOOSE x \in S : \A y \in S :
                     \/ x[1] < y[1]
                     \/ x[1] = y[1] /\ Ord(x[2]) <= Ord(y[2])
         IN <<m>> \o AscendingKeys(S \ {m})

GdTeamKeys(table) == AscendingKeys({<<table[i].gd, table[i].team>> : i \in 1..Len(table)})

\* DBIntegrityCheck.inspect_pstats: the loop over the groups stops at the
\* group that raises; the entries logged before it stay in err_log.
RECURSIVE InspectTeamGroups(_, _, _, _)
InspectTeamGroups(ptable, ttable, keys, log) ==
    IF keys = <<>> THEN [outcome |-> "return", log |-> log]
    ELSE LET gd == Head(keys)[1]
             team == Head(keys)[2]
             grp == SelectSeq(ptable, LAMBDA r : r.gd = gd /\ r.team = team)
             r == inspect_team_gd_group(ptable, ttable, grp, gd, team)
         IN IF r.raised THEN [outcome |-> "IndexError", log |-> log]
            ELSE InspectTeamGroups(ptable, ttable, Tail(keys), log \o r.rows)

inspect_pstats(ptable, ttable, log) ==
    InspectTeamGroups(ptable, ttable, GdTeamKeys(ptable), log)

\* DBIntegrityCheck.run: the five inspections in order; an exception of
\* inspect_pstats ends the run with the logs as they are at that point.
run(ptable, ttable, itable, ntable, known_pairs_list, kp, km, k, elog, nlog) ==
    LET p == inspect_pstats(ptable, ttable, elog)
    IN IF p.outcome # "return"
       THEN [outcome |-> p.outcome, err_log |-> p.log, name_log |-> nlog]
       ELSE LET t == inspect_tstats(ttable, p.log)
                i == inspect_names_in_table(kp, km, k, Unique(Players(itable)),
                                            "injuries", t).log
                n == inspect_names_in_table(kp, km, k, Unique(Players(ntable)),
                                            "news", i).log
            IN [outcome |-> "return", err_log |-> n,
                name_log |-> inspect_pstats_names(ptable, known_pairs_list, nlog)]

\* DBIntegrityCheck.errors and DBIntegrityCheck.sim_names
errors(elog) == Len(elog)
sim_names(nlog) == Len(nlog)

MsgAllGood == "All looks good. No errors or similar player names encountered."
MsgCounts == "{} errors, {} similar names encountered."

\* Mutant: the session is reported clean when one of the logs is empty.
inspectDbReportEither(elog, nlog) ==
    IF errors(elog) = 0 \/ sim_names(nlog) = 0
    THEN [printed |-> MsgAllGood, args |-> <<>>, saved |-> <<>>]
    ELSE [printed |-> MsgCounts, args |-> <<errors(elog), sim_names(nlog)>>,
          saved |-> <<[sheet |-> "Err_Log", frame |-> elog],
                      [sheet |-> "Name_Log", frame |-> nlog]>>]

\* inspect_db after dbc.run() (lines 263-278): what is printed and what is
\* saved to the workbook.
InspectDbReport(elog, nlog) ==
    IF errors(elog) = 0 /\ sim_names(nlog) = 0
    THEN [printed |-> MsgAllGood, args |-> <<>>, saved |-> <<>>]
    ELSE [printed |-> MsgCounts, args |-> <<errors(elog), sim_names(nlog)>>,
          saved |-> <<[sheet |-> "Err_Log", frame |-> elog],
                      [sheet |-> "Name_Log", frame |-> nlog]>>]

\* The rows of a team on a game date: one row for each player, the first
\* nstart of them starters.
Block(gd, team, opp, gid, tsid, names, nstart) ==
    [i \in 1..Len(names) |-> PRow(gd, team, opp, gid, tsid, names[i], i <= nstart)]

\* Player names at edit distance 4 of each other.
Quad(c) == <<c, c, c, c>>
PlayersA == <<Quad("a"), Quad("b"), Quad("c"), Quad("d"), Quad("e"), Quad("f"),
              Quad("g")>>
PlayersB == <<Quad("h"), Quad("i"), Quad("j"), Quad("k"), Quad("l"), Quad("m"),
              Quad("n")>>

\* The player tables of a session: a consistent game; the opponent without
\* rows; a short group; no rows; two names one edit apart; a short group
\* followed by a group whose opponent has no rows.
SessionPStats ==
    {Block(1, "A", "B", 1, 1, PlayersA, 5) \o Block(1, "B", "A", 1, 2, PlayersB, 5),
     Block(1, "A", "B", 1, 1, PlayersA, 5),
     Block(1, "A", "B", 1, 1, SubSeq(PlayersA, 1, 6), 5)
        \o Block(1, "B", "A", 1, 2, PlayersB, 5),
     <<>>,
     Block(1, "A", "B", 1, 1, PlayersA, 5)
        \o Block(1, "B", "A", 1, 2, [PlayersB EXCEPT ![7] = <<"a", "a", "a", "z">>], 5),
     Block(1, "A", "B", 1, 1, SubSeq(PlayersA, 1, 6), 5)
        \o Block(1, "B", "C", 1, 2, PlayersB, 5)}

\* A row of the team table with its id.
WithId(row, id) ==
    [f \in DOMAIN row \cup {"id"} |-> IF f = "id" THEN id ELSE row[f]]

\* The team tables of a session: the game of the player tables; the same
\* with two home rows; no rows.
SessionTStats ==
    {<<WithId(TRow(1, 1, "A", "B", TRUE, 0, -3, 210), 1),
       WithId(TRow(1, 1, "B", "A", FALSE, 0, 3, 210), 2)>>,
     <<WithId(TRow(1, 1, "A", "B", TRUE, 0, -3, 210), 1),
       WithId(TRow(1, 1, "B", "A", TRUE, 0, 3, 210), 2)>>,
     <<>>}

\* The other inputs of a session: the injury and news tables, the
\* known-similar pairs and the known names of the converter.
SessionInj == {<<>>, <<NameRow(nJonSmith)>>}
SessionNews == {<<>>, <<NameRow(nJohnSmith)>>}
SessionSimilar == {<<>>, <<<<<<"a", "a", "a", "z">>, Quad("a")>>>>}
SessionKnown == {{}, {nJohnSmith, nJonSmith}}

NoReport == [printed |-> "", args |-> <<>>, saved |-> <<>>]

\* DBIntegrityCheck.__init__: the four snapshots as loaded, the two logs
\* empty, the known-similar pairs and a NameConverter() in strict mode.
InitSession ==
    /\ UtilIdle
    /\ pstats \in SessionPStats
    /\ tstats \in SessionTStats
    /\ inj \in SessionInj
    /\ news \in SessionNews
    /\ err_log = <<>>
    /\ name_log = <<>>
    /\ known_sim_names \in SessionSimilar
    /\ known_pairs \in CheckerPairs
    /\ known_missing = {}
    /\ known \in SessionKnown
    /\ unhandled_names = {}
    /\ raise_exc = TRUE
    /\ nc_call = NoCall
    /\ chk_call = NoInspection
    /\ report = NoReport
    /\ WizIdle /\ AbbrIdle

Run ==
    /\ chk_call.op = "none"
    /\ \E r \in {run(pstats, tstats, inj, news, known_sim_names, known_pairs,
                     known_missing, known, err_log, name_log)} :
          /\ err_log' = r.err_log
          /\ name_log' = r.name_log
          /\ chk_call' = [op |-> "run", outcome |-> r.outcome]
    /\ UNCHANGED <<tstats, pstats, inj, news, known_sim_names, report>>
    /\ UNCHANGED <<nc_vars, wiz_vars, abbr_vars, util_vars>>

\* inspect_db: the checker is constructed and run; an exception of run()
\* leaves inspect_db before anything is printed or saved.
InspectDb ==
    /\ chk_call.op = "none"
    /\ \E r \in {run(pstats, tstats, inj, news, known_sim_names, known_pairs,
                     known_missing, known, err_log, name_log)} :
          /\ err_log' = r.err_log
          /\ name_log' = r.name_log
          /\ chk_call' = [op |-> "inspect_db", outcome |-> r.outcome]
          /\ report' = IF r.outcome = "return"
                       THEN InspectDbReport(r.err_log, r.name_log)
                       ELSE report
    /\ UNCHANGED <<tstats, pstats, inj, news, known_sim_names>>
    /\ UNCHANGED <<nc_vars, wiz_vars, abbr_vars, util_vars>>

NextSession == Run \/ InspectDb

SpecSession == InitSession /\ [][NextSession]_vars

-----------------------------------------------------------------------------
(* Claims about a checking session                                         *)

\* C12: run() does not raise, whatever the snapshots hold.
C12_RunNeverRaises ==
    chk_call.op = "run" => chk_call.outcome = "return"

\* C15: when inspect_db has run the checker to its end, it prints the
\* all-good message and saves nothing exactly when err_log and name_log are
\* both empty; otherwise it saves both logs and prints both counts.
C15_CleanIffBothLogsEmpty ==
    (chk_call.op = "inspect_db" /\ chk_call.outcome = "return") =>
        /\ report.printed = MsgAllGood <=> (Len(err_log) = 0 /\ Len(name_log) = 0)
        /\ report.printed = MsgAllGood => report.saved = <<>>
        /\ report.printed # MsgAllGood
             => /\ report.printed = MsgCounts
                /\ report.args = <<Len(err_log), Len(name_log)>>
                /\ {report.saved[i].frame : i \in 1..Len(report.saved)}
                     = {err_log, name_log}
                /\ Len(report.saved) = 2

\* A session with no discrepancy and one pair of near-duplicate names: the
\* logs are saved and the counts 0 and 1 are printed.
C15_Witness ==
    /\ chk_call.op = "inspect_db"
    /\ chk_call.outcome = "return"
    /\ err_log = <<>>
    /\ Len(name_log) = 1
    /\ report.printed = MsgCounts
    /\ report.args = <<0, 1>>
    /\ report.saved[2].frame = name_log

\* A session with both logs empty.
C15_WitnessClean ==
    /\ chk_call.op = "inspect_db"
    /\ pstats # <<>>
    /\ err_log = <<>> /\ name_log = <<>>
    /\ report.printed = MsgAllGood

-----------------------------------------------------------------------------
(* Claims about the decomposition of a name                                *)

\* C16: solve of a name without whitespace that is not in the universe fails
\* with the dedicated error NameFormatError.
C16_SingleTokenNameFormatError ==
    (Solved /\ ~InList(solve_call.arg, universe) /\ ~Contains(solve_call.arg, " "))
        => solve_call.outcome = "NameFormatError"

-----------------------------------------------------------------------------
(* AliasWizard on its own                                                  *)

\* Bound of the rows of the nickname sheet.
MaxAliasRows == 2

AliasFirstNames == {wJohn, wJon, wCJ}
AliasRowPool == {AliasRow(n, k) : n \in AliasFirstNames, k \in AliasFirstNames}
AliasArgs == AliasFirstNames \cup {wChris}

NoAliasCall == [op |-> "none", arg |-> <<>>, found |-> FALSE, list |-> <<>>]

\* The class attributes df, names and nicknames as loaded from the sheet.
InitAlias ==
    /\ UtilIdle
    /\ alias_df \in ListsUpTo(AliasRowPool, MaxAliasRows)
    /\ alias_call = NoAliasCall
    /\ universe = <<>> /\ wiz = <<>> /\ solve_call = <<>>
    /\ NCIdle /\ AbbrIdle /\ ChkIdle

GetAliases(name) ==
    \E r \in {get_aliases(alias_df, name)} :
       /\ alias_call' = [op |-> "get_aliases", arg |-> name, found |-> r.found,
                         list |-> r.list]
       /\ UNCHANGED <<universe, alias_df, wiz, solve_call>>
       /\ UNCHANGED <<nc_vars, abbr_vars, chk_vars, util_vars>>

HasAliases(name) ==
    /\ alias_call' = [op |-> "has_aliases", arg |-> name,
                      found |-> has_aliases(alias_df, name), list |-> <<>>]
    /\ UNCHANGED <<universe, alias_df, wiz, solve_call>>
    /\ UNCHANGED <<nc_vars, abbr_vars, chk_vars, util_vars>>

NextAlias ==
    \/ \E name \in AliasArgs : GetAliases(name)
    \/ \E name \in AliasArgs : HasAliases(name)

SpecAlias == InitAlias /\ [][NextAlias]_vars

-----------------------------------------------------------------------------
(* Claims about AliasWizard                                                *)

InNameColumn(x) == \E i \in 1..Len(alias_df) : alias_df[i].name = x
InNicknameColumn(x) == \E i \in 1..Len(alias_df) : alias_df[i].nickname = x

\* C17 as stated: for every entry (name, nickname) of the table,
\* get_aliases(name) holds nickname and get_aliases(nickname) holds name, also
\* for a string of both columns; the result is None exactly for the strings
\* of neither column.
C17_BidirectionalLookup ==
    alias_call.op = "get_aliases" =>
        /\ \A i \in 1..Len(alias_df) :
              /\ alias_df[i].name = alias_call.arg
                   => alias_call.found /\ InList(alias_df[i].nickname, alias_call.list)
              /\ alias_df[i].nickname = alias_call.arg
                   => alias_call.found /\ InList(alias_df[i].name, alias_call.list)
        /\ ~alias_call.found
             <=> ~InNameColumn(alias_call.arg) /\ ~InNicknameColumn(alias_call.arg)

\* C17 amended: get_aliases(name) holds the nickname of every entry
\* (name, nickname); get_aliases(nickname) holds the name of every entry
\* (name, nickname) when nickname is not also in the name column; a string
\* of both columns is looked up as a name only, so the result holds the
\* nicknames of its name rows and nothing else; the result is None exactly
\* for the strings of neither column.
C17_BidirectionalUnlessInBothColumns ==
    alias_call.op = "get_aliases" =>
        /\ \A i \in 1..Len(alias_df) :
              /\ alias_df[i].name = alias_call.arg
                   => alias_call.found /\ InList(alias_df[i].nickname, alias_call.list)
              /\ (alias_df[i].nickname = alias_call.arg /\ ~InNameColumn(alias_call.arg))
                   => alias_call.found /\ InList(alias_df[i].name, alias_call.list)
        /\ InNameColumn(alias_call.arg)
             => \A j \in 1..Len(alias_call.list) :
                   \E i \in 1..Len(alias_df) :
                      /\ alias_df[i].name = alias_call.arg
                      /\ alias_df[i].nickname = alias_call.list[j]
        /\ ~alias_call.found
             <=> ~InNameColumn(alias_call.arg) /\ ~InNicknameColumn(alias_call.arg)

\* "Jon" with the entries (John, Jon) and (Jon, CJ): the lookup gives CJ and
\* leaves out John.
C17_Witness ==
    /\ alias_call.op = "get_aliases"
    /\ alias_call.arg = wJon
    /\ alias_df = <<AliasRow(wJohn, wJon), AliasRow(wJon, wCJ)>>
    /\ alias_call.found
    /\ alias_call.list = <<wCJ>>

-----------------------------------------------------------------------------
(* MostSimilarNameWizard: suffixed names and names with an apostrophe      *)

wDJon  == <<"D", "'", "J", "o", "n">>
wDJon2 == <<"D", "J", "o", "n">>

nJonSmithJr     == nJonSmith \o SP \o wJr
nJohnSmithCJr   == nJohnSmith \o <<",", " ", "J", "r", ".">>
nJohnONealIII   == nJohnONeal \o SP \o <<"I", "I", "I">>
nJohnHyphJr     == nJohnHyph \o SP \o wJr
nJonONeal       == wJon \o SP \o wONeal
nJonONeal2      == wJon \o SP \o wONeal2
nJohnONealSmith == wJohn \o SP \o wONeal \o <<"-">> \o wSmith
nDJonONeal      == wDJon \o SP \o wONeal
nDJonONealA     == wDJon2 \o SP \o wONeal
nDJonONealB     == wDJon \o SP \o wONeal2

RuleUniversePool == {nJohnSmith, nJonSmith, nJohnONeal, nJohnONeal2, nJonONeal2,
                     nDJonONealA, nDJonONealB}
RuleInputs == {nJonSmithJr, nJohnSmithCJr, nJohnONealIII, nJohnHyphJr, nJonONeal,
               nJohnONealSmith, nDJonONeal}

\* MostSimilarNameWizard.__init__ with the universes of these names.
InitSolveRules ==
    /\ UtilIdle
    /\ universe \in ListsUpTo(RuleUniversePool, MaxUniverse)
    /\ alias_df \in AliasTables
    /\ wiz = [name |-> Unset, first |-> Unset, last |-> Unset, suffix |-> Unset]
    /\ solve_call = NoSolve
    /\ alias_call = <<>>
    /\ NCIdle /\ AbbrIdle /\ ChkIdle

NextSolveRules == \E name \in RuleInputs : Solve(name)

SpecSolveRules == InitSolveRules /\ [][NextSolveRules]_vars

-----------------------------------------------------------------------------
(* Claims about the suffix rule and the apostrophe rule                    *)

NotInitials == ~rgx_abbr_no_periods(wiz.first) /\ ~rgx_abbr_periods(wiz.first)

\* C18: for a name not in the universe, not of an initials shape and
\* decomposed with a suffix, solve tests "First Last" and nothing else; it
\* returns "First Last" if the universe holds it and raises PMissingError
\* otherwise.
C18_SuffixRewriteOrFail ==
    (Decomposed /\ NotInitials /\ wiz.suffix # None)
        => /\ wiz.suffix \in Suffixes
           /\ Len(solve_call.tested) = 2
           /\ solve_call.tested[2] = wiz.first \o SP \o wiz.last
           /\ IF InList(wiz.first \o SP \o wiz.last, universe)
              THEN /\ solve_call.outcome = "return"
                   /\ solve_call.ret = wiz.first \o SP \o wiz.last
              ELSE solve_call.outcome = "PMissingError"

\* "Jon Smith Jr" against a universe holding "John Smith", with "Jon" a known
\* nickname of "John": the alias rule would find a member, the call fails.
C18_Witness ==
    /\ Solved
    /\ solve_call.arg = nJonSmithJr
    /\ universe = <<nJohnSmith>>
    /\ InList(wJohn, get_aliases(alias_df, wJon).list)
    /\ solve_call.outcome = "PMissingError"
    /\ solve_call.tested = <<nJonSmithJr, nJonSmith>>

\* The candidates of rules 5-7 in the order of the claim: first name without
\* apostrophes, last name without apostrophes, the hyphen components of the
\* last name from left to right, the aliases of the first name.
ExpectedCandidates ==
    LET comps == Split(wiz.last, "-")
        al == get_aliases(alias_df, wiz.first)
    IN (IF Contains(wiz.first, "'")
        THEN <<Remove(wiz.first, "'") \o <<" ">> \o wiz.last>> ELSE <<>>)
       \o (IF Contains(wiz.last, "'")
           THEN <<wiz.first \o <<" ">> \o Remove(wiz.last, "'")>> ELSE <<>>)
       \o (IF Len(comps) > 1
           THEN [i \in 1..Len(comps) |-> wiz.first \o <<" ">> \o comps[i]] ELSE <<>>)
       \o (IF al.found
           THEN [i \in 1..Len(al.list) |-> al.list[i] \o <<" ">> \o wiz.last]
           ELSE <<>>)

\* C19: for a name not in the universe, not of an initials shape, without
\* suffix, and with an apostrophe in its first or last name, solve tests the
\* candidates of rules 5-7 in their order, returns the first that the
\* universe holds, and raises PMissingError only if the universe holds none.
C19_ApostropheFallsThrough ==
    (/\ Decomposed /\ NotInitials /\ wiz.suffix = None
     /\ (Contains(wiz.first, "'") \/ Contains(wiz.last, "'")))
        => LET c == ExpectedCandidates
               hits == {i \in 1..Len(c) : InList(c[i], universe)}
           IN IF hits = {}
              THEN /\ solve_call.outcome = "PMissingError"
                   /\ solve_call.tested = <<solve_call.arg>> \o c
              ELSE \E h \in hits :
                      /\ \A j \in hits : h <= j
                      /\ solve_call.outcome = "return"
                      /\ solve_call.ret = c[h]
                      /\ solve_call.tested = <<solve_call.arg>> \o SubSeq(c, 1, h)

\* "Jon O'Neal" against a universe holding "John O'Neal", with "Jon" a known
\* nickname of "John": "Jon ONeal" is not found, the alias rule finds the name.
C19_Witness ==
    /\ Solved
    /\ solve_call.arg = nJonONeal
    /\ universe = <<nJohnONeal>>
    /\ solve_call.outcome = "return"
    /\ solve_call.ret = nJohnONeal
    /\ solve_call.tested = <<nJonONeal, nJonONeal2, nJohnONeal>>

\* "John O'Neal-Smith": the apostrophe variant is not found, the second
\* hyphen component is.
C19_WitnessHyphen ==
    /\ Solved
    /\ solve_call.arg = nJohnONealSmith
    /\ universe = <<nJohnSmith>>
    /\ solve_call.ret = nJohnSmith
    /\ Len(solve_call.tested) = 4

-----------------------------------------------------------------------------
(* Claims about the first match of AbbreviatedNameWizard.full_name         *)

\* The positions of the universe names that decompose with the last name
\* (characters from index 3) and the first initial of the abbreviation.
MatchingPositions ==
    {i \in 1..Len(raw_names) :
        /\ Name(raw_names[i]).ok
        /\ Name(raw_names[i]).last = SliceFrom(abbr_call.arg, 3)
        /\ Name(raw_names[i]).first[1] = abbr_call.arg[1]}

\* C20: when several universe names match the abbreviation, full_name returns
\* the earliest of them in universe order and does not use the edit-distance
\* fallback.
C20_EarliestMatchReturned ==
    (/\ abbr_call.op = "full_name" /\ abbr_call.arg # <<>>
     /\ Cardinality(MatchingPositions) >= 2)
        => /\ abbr_call.outcome = "return"
           /\ ~abbr_call.fallback
           /\ \E i \in MatchingPositions :
                 /\ \A j \in MatchingPositions : i <= j
                 /\ abbr_call.ret = raw_names[i]

-----------------------------------------------------------------------------
(* Claims about the fallback log of AbbreviatedNameWizard                  *)

\* No name object of the wizard has the last name and first initial of the
\* non-empty abbreviation a.
NoDirectMatch(a) ==
    /\ a # <<>>
    /\ \A last_name \in {SliceFrom(a, 3)} :
          \A i \in 1..Len(name_objs) :
             ~(name_objs[i].last = last_name /\ name_objs[i].first[1] = a[1])

\* x is the universe name of minimum edit distance to a, the earliest in
\* universe order among ties.
NearestInUniverse(a, x) ==
    \A d \in {Distances(a, raw_names)} :
       \E i \in 1..Len(raw_names) :
          /\ x = raw_names[i]
          /\ \A j \in 1..Len(raw_names) :
                /\ d[i][2] <= d[j][2]
                /\ j < i => d[i][2] < d[j][2]

\* C21 as stated: an abbreviation is a key of used_levenshtein whenever a call
\* for it found no initial/last-name match.
C21_FallbackAlwaysLogged ==
    (abbr_call.op = "full_name" /\ NoDirectMatch(abbr_call.arg))
        => abbr_call.arg \in DOMAIN used_levenshtein

\* C21 amended: a call of full_name that finds no direct match in a
\* non-empty universe returns the nearest universe name and maps the
\* abbreviation to it in used_levenshtein; every other call (a direct match,
\* an empty universe, an empty abbreviation) leaves used_levenshtein as it
\* was, the latter two raising IndexError; used_levenshtein_count is the
\* number of abbreviations mapped.
C21_FallbackLoggedUnlessEmptyUniverse ==
    [][abbr_call'.op = "full_name" =>
         \A a \in {abbr_call'.arg} : \A nomatch \in {NoDirectMatch(a)} :
            /\ IF nomatch /\ raw_names # <<>>
               THEN /\ abbr_call'.outcome = "return"
                    /\ NearestInUniverse(a, abbr_call'.ret)
                    /\ DOMAIN used_levenshtein' = DOMAIN used_levenshtein \cup {a}
                    /\ used_levenshtein'[a] = abbr_call'.ret
                    /\ \A b \in DOMAIN used_levenshtein \ {a} :
                          used_levenshtein'[b] = used_levenshtein[b]
               ELSE used_levenshtein' = used_levenshtein
            /\ (nomatch /\ raw_names = <<>>) \/ a = <<>>
                  => abbr_call'.outcome = "IndexError"
            /\ used_levenshtein_count' = Cardinality(DOMAIN used_levenshtein')]_vars

\* Two abbreviations resolved by the fallback, then a call resolved by the
\* direct match.
C21_Witness ==
    /\ abbr_call.op = "full_name"
    /\ abbr_call.outcome = "return"
    /\ ~abbr_call.fallback
    /\ used_levenshtein_count = 2
    /\ Len(raw_names) = 2
    /\ abbr_call.arg \notin DOMAIN used_levenshtein

-----------------------------------------------------------------------------
(* DBIntegrityCheck: the player table alone                                *)

\* The snapshots of the model: one consistent game of teams A and B, seven
\* players each, after at most MaxGroupDeviations changes.
MaxGroupDeviations == 2

ConsistentPStats ==
    Block(1, "A", "B", 1, 1, PlayersA, 5) \o Block(1, "B", "A", 1, 2, PlayersB, 5)

ConsistentTeamRows ==
    <<WithId(TRow(1, 1, "A", "B", TRUE, 0, -3, 210), 1),
      WithId(TRow(1, 1, "B", "A", FALSE, 0, 3, 210), 2)>>

\* The rows a change applies to: a starter and a reserve of each team.
ChangedRows == <<1, 7, 8, 14>>
PFields == <<"gd", "team", "opp", "gid", "tsid", "player", "starter">>

\* The value a change gives to a field of a row.
Deviant(row, f) ==
    CASE f = "gd" -> 2 [] f = "team" -> "C" [] f = "opp" -> "C" [] f = "gid" -> 2
      [] f = "tsid" -> 3 [] f = "player" -> PlayersA[2] [] f = "starter" -> ~row.starter

SetField(row, f, v) == [g \in DOMAIN row |-> IF g = f THEN v ELSE row[g]]

\* A change: of one field of one row of the player table, the loss of one
\* row, a change of all rows of a team (the game identifier of B, the
\* opponent of A, the loss of the rows of B), or a change of the team table
\* (the date or the team of row 1, a second row with id 1, no row with id 1).
SnapshotChanges ==
    ({"set"} \X (1..Len(ChangedRows)) \X (1..Len(PFields)))
      \cup ({"drop"} \X (1..Len(ChangedRows)) \X {0})
      \cup ({"team"} \X (1..3) \X {0})
      \cup ({"tstats"} \X (1..4) \X {0})

\* s.p are the rows of the player table, s.gone the rows lost, s.t the team
\* table.
SnapshotChanged(s, c) ==
    CASE c[1] = "set" ->
            [s EXCEPT !.p[ChangedRows[c[2]]] =
                SetField(@, PFields[c[3]], Deviant(@, PFields[c[3]]))]
      [] c[1] = "drop" -> [s EXCEPT !.gone = @ \cup {ChangedRows[c[2]]}]
      [] c[1] = "team" /\ c[2] = 1 ->
            [s EXCEPT !.p = [i \in 1..Len(s.p) |->
                IF i > 7 THEN SetField(s.p[i], "gid", 2) ELSE s.p[i]]]
      [] c[1] = "team" /\ c[2] = 2 ->
            [s EXCEPT !.p = [i \in 1..Len(s.p) |->
                IF i <= 7 THEN SetField(s.p[i], "opp", "C") ELSE s.p[i]]]
      [] c[1] = "team" /\ c[2] = 3 -> [s EXCEPT !.gone = @ \cup (8..14)]
      [] c[1] = "tstats" /\ c[2] = 1 -> [s EXCEPT !.t[1] = SetField(@, "gd", 2)]
      [] c[1] = "tstats" /\ c[2] = 2 -> [s EXCEPT !.t[1] = SetField(@, "team", "C")]
      [] c[1] = "tstats" /\ c[2] = 3 -> [s EXCEPT !.t[2] = SetField(@, "id", 1)]
      [] c[1] = "tstats" /\ c[2] = 4 -> [s EXCEPT !.t[1] = SetField(@, "id", 0)]

RECURSIVE SnapshotChangedBy(_, _)
SnapshotChangedBy(s, cs) ==
    IF cs = <<>> THEN s ELSE SnapshotChangedBy(SnapshotChanged(s, Head(cs)), Tail(cs))

\* The rows of p that are not lost, in order.
RECURSIVE Kept(_, _, _)
Kept(p, gone, i) ==
    IF i > Len(p) THEN <<>>
    ELSE (IF i \in gone THEN <<>> ELSE <<p[i]>>) \o Kept(p, gone, i + 1)

\* DBIntegrityCheck.__init__: the player and team snapshots as loaded and an
\* empty err_log.
InitPStats ==
    /\ UtilIdle
    /\ \E cs \in [1..MaxGroupDeviations -> SnapshotChanges] :
          \E s \in {SnapshotChangedBy([p |-> ConsistentPStats, gone |-> {},
                                       t |-> ConsistentTeamRows], cs)} :
             /\ pstats = Kept(s.p, s.gone, 1)
             /\ tstats = s.t
    /\ err_log = <<>>
    /\ chk_call = NoInspection
    /\ inj = <<>> /\ news = <<>> /\ name_log = <<>> /\ known_sim_names = <<>>
    /\ report = <<>>
    /\ NCIdle /\ WizIdle /\ AbbrIdle

\* inspect_pstats, run once in a session (run(), lines 51-57).
InspectPStats ==
    /\ chk_call.op = "none"
    /\ \E r \in {inspect_pstats(pstats, tstats, err_log)} :
          /\ err_log' = r.log
          /\ chk_call' = [op |-> "inspect_pstats", outcome |-> r.outcome]
    /\ UNCHANGED <<tstats, pstats, inj, news, name_log, known_sim_names, report>>
    /\ UNCHANGED <<nc_vars, wiz_vars, abbr_vars, util_vars>>

NextPStats == InspectPStats

SpecPStats == InitPStats /\ [][NextPStats]_vars

-----------------------------------------------------------------------------
(* Claims about the player-group checklist                                 *)

EntriesOfGroup(gd, team) == SelectSeq(err_log, LAMBDA e : e.id = GdTeamId(gd, team))

GroupOf(gd, team) == SelectSeq(pstats, LAMBDA r : r.gd = gd /\ r.team = team)

GroupKeys == {<<pstats[i].gd, pstats[i].team>> : i \in 1..Len(pstats)}

\* The same-date rows of the opponent recorded in the first row of a group.
OpponentRows(grp) ==
    SelectSeq(pstats, LAMBDA r : r.team = grp[1].opp /\ r.gd = grp[1].gd)

\* The rows of the team table a group links to by the tsid of its first row.
LinkedRows(grp) == SelectSeq(tstats, LAMBDA r : r.id = grp[1].tsid)

\* The checks of a (game date, team) group in the order of the checklist,
\* each stated on its own: whether it fails for the group.  The opponent
\* check compares the game identifier of the group with the first one found
\* among the opponent's rows; the checks of the linked team-table row apply
\* when there is exactly one such row.
GroupCheckFails(grp, k) ==
    CASE k = 1 -> Len(grp) < 7
      [] k = 2 -> Cardinality({i \in 1..Len(grp) : grp[i].starter}) # 5
      [] k = 3 -> Cardinality({grp[i].gid : i \in 1..Len(grp)}) > 1
      [] k = 4 -> Cardinality({grp[i].opp : i \in 1..Len(grp)}) > 1
      [] k = 5 -> /\ OpponentRows(grp) # <<>>
                  /\ OpponentRows(grp)[1].gid # grp[1].gid
      [] k = 6 -> Cardinality({grp[i].tsid : i \in 1..Len(grp)}) > 1
      [] k = 7 -> Len(LinkedRows(grp)) # 1
      [] k = 8 -> Len(LinkedRows(grp)) = 1 /\ LinkedRows(grp)[1].gd # grp[1].gd
      [] k = 9 -> Len(LinkedRows(grp)) = 1 /\ LinkedRows(grp)[1].team # grp[1].team
      [] k = 10 -> Cardinality({grp[i].player : i \in 1..Len(grp)}) # Len(grp)

GroupCheckEntry(k, gd, team) ==
    CASE k = 1 -> LogRow("PStats", "Row count < 7", GdTeamId(gd, team))
      [] k = 2 -> LogRow("PStats", "starter count != 5", GdTeamId(gd, team))
      [] k = 3 -> LogRow("PStats", "gid count != 1", GdTeamId(gd, team))
      [] k = 4 -> LogRow("PStats", "opp count != 1", GdTeamId(gd, team))
      [] k = 5 -> LogRow("PStats", "opp gid != gid", GdTeamId(gd, team))
      [] k = 6 -> LogRow("PStats", "tsid count != 1", GdTeamId(gd, team))
      [] k = 7 -> LogRow("TStats", "TStats.id = tsid match count != 1", GdTeamId(gd, team))
      [] k = 8 -> LogRow("TStats", "TStats.GD != GD", GdTeamId(gd, team))
      [] k = 9 -> LogRow("TStats", "TStats.team != team", GdTeamId(gd, team))
      [] k = 10 -> LogRow("PStats", "Duplicate name", GdTeamId(gd, team))

FailingGroupChecks(grp) == {k \in 1..10 : GroupCheckFails(grp, k)}

\* The scan of inspect_pstats ends at a group that passes the first four
\* checks and whose opponent has no row on the game date (IndexError).
EndsScan(grp) ==
    /\ \A k \in 1..4 : ~GroupCheckFails(grp, k)
    /\ OpponentRows(grp) = <<>>

\* The order of the groups in the scan: by game date, then by team.
ScannedBefore(a, b) == a[1] < b[1] \/ (a[1] = b[1] /\ Ord(a[2]) < Ord(b[2]))

\* The scan reaches the group of key and goes through its checks.
Inspected(key) ==
    \A other \in GroupKeys :
        (other = key \/ ScannedBefore(other, key))
            => ~EndsScan(GroupOf(other[1], other[2]))

\* C22: after inspect_pstats, every (game date, team) group has at most one
\* entry in err_log, and an entry is that of the earliest failing check of
\* the group in the order row count, starter count, game identifiers,
\* opponents, opponent's game identifier, link ids, linked team-table row,
\* its date, its team, duplicate names; a group that passes every check has
\* none, and a group the scan went through with a failing check has one.
C22_FirstFailingGroupCheckOnly ==
    chk_call.op = "inspect_pstats" =>
        \A key \in GroupKeys :
            \A failing \in {FailingGroupChecks(GroupOf(key[1], key[2]))} :
                /\ Len(EntriesOfGroup(key[1], key[2])) <= 1
                /\ failing = {} => EntriesOfGroup(key[1], key[2]) = <<>>
                /\ EntriesOfGroup(key[1], key[2]) # <<>>
                     => \E k \in failing :
                           /\ \A j \in failing : k <= j
                           /\ EntriesOfGroup(key[1], key[2])
                                = <<GroupCheckEntry(k, key[1], key[2])>>
                /\ (failing # {} /\ Inspected(key))
                     => EntriesOfGroup(key[1], key[2]) # <<>>

\* A group of seven rows with four starters and two link ids: two checks
\* fail, the entry of the starter count is logged.
C22_Witness ==
    /\ chk_call.op = "inspect_pstats"
    /\ FailingGroupChecks(GroupOf(1, "A")) = {2, 6}
    /\ EntriesOfGroup(1, "A") = <<LogRow("PStats", "starter count != 5", GdTeamId(1, "A"))>>

\* A group that passes every check after a group with an entry.
C22_WitnessClean ==
    /\ chk_call.op = "inspect_pstats"
    /\ Len(GroupOf(1, "B")) = 7
    /\ FailingGroupChecks(GroupOf(1, "B")) = {}
    /\ Len(err_log) = 1
    /\ EntriesOfGroup(1, "B") = <<>>

\* The scan reaches the group of key, which passes its first four checks.
ReachesOpponentCheck(key) ==
    /\ \A k \in 1..4 : ~GroupCheckFails(GroupOf(key[1], key[2]), k)
    /\ \A other \in GroupKeys :
          ScannedBefore(other, key) => ~EndsScan(GroupOf(other[1], other[2]))

OppGidEntry(key) == LogRow("PStats", "opp gid != gid", GdTeamId(key[1], key[2]))

C23_WitnessLogged ==
    /\ chk_call.op = "inspect_pstats"
    /\ ReachesOpponentCheck(<<1, "A">>)
    /\ OpponentRows(GroupOf(1, "A")) # <<>>
    /\ OpponentRows(GroupOf(1, "A"))[1].gid = 2
    /\ EntriesOfGroup(1, "A") = <<OppGidEntry(<<1, "A">>)>>

-----------------------------------------------------------------------------
(* A session of all the reconciliation components                          *)

\* The names cleaned and solved, and the abbreviations resolved, in a session.
ReconNames == {nJohnSmith, nJonSmith}
ReconAbbrevs == {Abbrev("J", wSmith), Abbrev("K", wJones)}

\* The snapshots of the session: a short group of two players whose names
\* are one edit apart, and a game with one team row.
ReconPStats == PlayerRows(<<nJohnSmith, nJonSmith>>)
ReconTStats == <<WithId(TRow(1, 1, "A", "B", TRUE, 0, -3, 210), 1)>>

\* The constructors of NameConverter, MostSimilarNameWizard,
\* AbbreviatedNameWizard and DBIntegrityCheck, on the loaded reference data.
InitRecon ==
    /\ UtilIdle
    /\ known_pairs \in CheckerPairs
    /\ known_missing = {}
    /\ known = {nJohnSmith}
    /\ unhandled_names = {}
    /\ raise_exc \in BOOLEAN
    /\ nc_call = NoCall
    /\ universe \in ListsUpTo({nJohnSmith}, MaxUniverse)
    /\ alias_df = <<AliasRow(wJohn, wJon)>>
    /\ wiz = [name |-> Unset, first |-> Unset, last |-> Unset, suffix |-> Unset]
    /\ solve_call = NoSolve
    /\ alias_call = <<>>
    /\ raw_names = universe
    /\ name_objs = create_name_objects(raw_names)
    /\ used_levenshtein = <<>>
    /\ abbr_call = NoAbbr
    /\ pstats = ReconPStats
    /\ tstats = ReconTStats
    /\ inj = <<NameRow(nJonSmith)>>
    /\ news = <<>>
    /\ err_log = <<>>
    /\ name_log = <<>>
    /\ known_sim_names = <<>>
    /\ chk_call = NoInspection
    /\ report = NoReport

NextRecon ==
    \/ \E name \in ReconNames : Clean(name)
    \/ \E name \in ReconNames : IsProblematic(name)
    \/ \E name \in ReconNames : Solve(name)
    \/ \E abbrev \in ReconAbbrevs : FullName(abbrev)
    \/ Run

SpecRecon == InitRecon /\ [][NextRecon]_vars

-----------------------------------------------------------------------------
(* Claims about the state of a session                                     *)

\* The reference collections, the resolver universes and the four snapshots.
ReferenceData ==
    <<known_pairs, known_missing, known, raise_exc, known_sim_names, universe,
      alias_df, raw_names, name_objs, pstats, tstats, inj, news>>

\* C26 as stated: no call changes the reference data, and nothing but
\* unhandled_names, used_levenshtein and the two logs changes.
C26_OnlyLogsChange ==
    [][UNCHANGED ReferenceData /\ UNCHANGED wiz]_vars

\* C26 amended: no call of clean, is_problematic, solve, full_name or run
\* changes the reference data; a call changes at most one of
\* unhandled_names (clean), used_levenshtein (full_name), the two logs (run)
\* and the attributes name, first, last and suffix of the
\* MostSimilarNameWizard, which solve overwrites when it decomposes a name
\* that is not in its universe.
C26_ReferenceDataReadOnly ==
    [][/\ UNCHANGED ReferenceData
       /\ unhandled_names' # unhandled_names
            => /\ nc_call'.op = "clean"
               /\ UNCHANGED <<used_levenshtein, err_log, name_log, wiz>>
       /\ used_levenshtein' # used_levenshtein
            => /\ abbr_call'.op = "full_name"
               /\ UNCHANGED <<unhandled_names, err_log, name_log, wiz>>
       /\ <<err_log, name_log>>' # <<err_log, name_log>>
            => /\ chk_call'.op = "run"
               /\ UNCHANGED <<unhandled_names, used_levenshtein, wiz>>
       /\ wiz' # wiz
            => /\ solve_call'.op = "solve"
               /\ ~InList(solve_call'.arg, universe)
               /\ wiz'.name = solve_call'.arg
               /\ UNCHANGED <<unhandled_names, used_levenshtein, err_log, name_log>>]_vars

\* Every component has been used: a name is unhandled, an abbreviation was
\* resolved by the fallback, both logs have entries and the wizard holds the
\* parts of the name it decomposed.
C26_Witness ==
    /\ unhandled_names # {}
    /\ DOMAIN used_levenshtein # {}
    /\ err_log # <<>> /\ name_log # <<>>
    /\ wiz.name = nJonSmith
    /\ universe # <<>>
    /\ nc_call.op = "is_problematic"

-----------------------------------------------------------------------------
(* Claims about the threshold of the near-duplicate name log               *)

\* C27: after inspect_pstats_names, every pair of unique player names at edit
\* distance exactly MAX_LEVENSHTEIN that is not pre-approved has an entry in
\* the name log.
C27_DistanceFourLogged ==
    chk_call.op = "inspect_pstats_names" =>
        \A i, j \in 1..Len(UniqueNames) :
            (/\ i < j
             /\ edit_distance(UniqueNames[i], UniqueNames[j]) = MAX_LEVENSHTEIN
             /\ ~PreApproved(UniqueNames[i], UniqueNames[j]))
                => \E e \in 1..Len(name_log) :
                      /\ name_log[e].name1 = UniqueNames[i]
                      /\ name_log[e].name2 = UniqueNames[j]

-----------------------------------------------------------------------------
(* ProgramTimer (timer.py)                                                 *)

\* Bounds of the events of a timer and of the layers one call of e() ends.
MaxEvents == 4
MaxLayers == 2

EventNames == {"load", "save"}

\* What time.time() returns: a float, never None.
Time == <<"time">>

\* Event.__init__: the end time is None until end() is called.
Event(name, uid, hrchy, pid) ==
    [name |-> name, uid |-> uid, hrchy |-> hrchy, pid |-> pid, end |-> None]

\* Event.is_open
is_open(event) == event.end = None

\* ProgramTimer.__event_count
event_count(evs) == Len(evs)

\* The value None of an event id; the ids of events start at 1.
NoEvent == 0

RECURSIVE EarliestOpenFrom(_, _)
EarliestOpenFrom(evs, i) ==
    IF i > Len(evs) THEN NoEvent
    ELSE IF is_open(evs[i]) THEN evs[i].uid
    ELSE EarliestOpenFrom(evs, i + 1)

\* Mutant: the earliest open event is found.
priorOpenEventIdEarliest(evs) ==
    IF event_count(evs) = 0 THEN NoEvent ELSE EarliestOpenFrom(evs, 1)

\* The loop of ProgramTimer.__prior_open_event_id from position i down to 1.
RECURSIVE PriorOpenFrom(_, _)
PriorOpenFrom(evs, i) ==
    IF i = 0 THEN NoEvent
    ELSE IF is_open(evs[i]) THEN evs[i].uid
    ELSE PriorOpenFrom(evs, i - 1)

\* ProgramTimer.__prior_open_event_id
prior_open_event_id(evs) ==
    IF event_count(evs) = 0 THEN NoEvent ELSE PriorOpenFrom(evs, event_count(evs))

\* ProgramTimer.s: the events after the call.
s(evs, name) ==
    LET new_id == event_count(evs) + 1
        prior_open_id == prior_open_event_id(evs)
        hrchy == IF prior_open_id = NoEvent THEN 1 ELSE evs[prior_open_id].hrchy + 1
    IN Append(evs, Event(name, new_id, hrchy, prior_open_id))

\* ProgramTimer.e: the events after the call and whether it raised; the
\* events ended before a nested call raises stay ended.
RECURSIVE e(_, _)
e(evs, n) ==
    LET prior_open_id == prior_open_event_id(evs)
    IN IF prior_open_id = NoEvent
       THEN [events |-> evs, outcome |-> "Exception"]
       ELSE LET ended == [evs EXCEPT ![prior_open_id].end = Time]
            IN IF n > 1 THEN e(ended, n - 1)
               ELSE [events |-> ended, outcome |-> "return"]

NoTimerCall == [op |-> "none", name |-> "", n |-> 0, outcome |-> "none"]

\* ProgramTimer.__init__
InitTimer ==
    /\ events = <<>>
    /\ timer_call = NoTimerCall
    /\ CsvIdle /\ DbIdle
    /\ NCIdle /\ WizIdle /\ AbbrIdle /\ ChkIdle

S(name) ==
    /\ event_count(events) < MaxEvents
    /\ events' = s(events, name)
    /\ timer_call' = [op |-> "s", name |-> name, n |-> 0, outcome |-> "return"]
    /\ UNCHANGED <<csv_vars, db_vars>>
    /\ UNCHANGED <<nc_vars, wiz_vars, abbr_vars, chk_vars>>

\* e(n=n) for a number of layers n >= 1.
E(n) ==
    \E r \in {e(events, n)} :
       /\ events' = r.events
       /\ timer_call' = [op |-> "e", name |-> "", n |-> n, outcome |-> r.outcome]
       /\ UNCHANGED <<csv_vars, db_vars>>
       /\ UNCHANGED <<nc_vars, wiz_vars, abbr_vars, chk_vars>>

NextTimer ==
    \/ \E name \in EventNames : S(name)
    \/ \E n \in 1..MaxLayers : E(n)

SpecTimer == InitTimer /\ [][NextTimer]_vars

-----------------------------------------------------------------------------
(* Claims about ProgramTimer                                               *)

OpenIds(evs) == {i \in 1..Len(evs) : evs[i].end = None}

\* The m most recently started of the open events of evs.
Innermost(evs, m) ==
    {i \in OpenIds(evs) : Cardinality({j \in OpenIds(evs) : j > i}) < m}

\* C28: the ids of the events are 1..k in the order the events were started;
\* s() adds an open event with the next id and changes no other event; e(n=m)
\* ends the m most recently started open events and changes no other event,
\* so that an ended event is never reopened; with fewer than m open events it
\* ends all of them and raises, and with no open event it raises and changes
\* no event.
C28_LastOpenedClosedFirst ==
    /\ [](\A i \in 1..Len(events) : events[i].uid = i)
    /\ [][/\ timer_call'.op = "s"
               => /\ Len(events') = Len(events) + 1
                  /\ events'[Len(events')].end = None
                  /\ \A i \in 1..Len(events) : events'[i] = events[i]
          /\ timer_call'.op = "e"
               => /\ Len(events') = Len(events)
                  /\ \A i \in 1..Len(events) :
                        events'[i] = IF i \in Innermost(events, timer_call'.n)
                                     THEN [events[i] EXCEPT !.end = Time]
                                     ELSE events[i]
                  /\ timer_call'.outcome = "Exception"
                        <=> Cardinality(OpenIds(events)) < timer_call'.n
          /\ \A i \in 1..Len(events) : events[i].end # None => events'[i].end # None
         ]_vars

\* Three events, the second ended before the third was started inside the
\* first: e(n=2) ends the third and the first.
C28_Witness ==
    /\ timer_call.op = "e" /\ timer_call.n = 2 /\ timer_call.outcome = "return"
    /\ Len(events) = 3
    /\ events[2].pid = 1
    /\ events[3].pid = 1
    /\ OpenIds(events) = {}

\* e() with no open event.
C28_WitnessRaises ==
    /\ timer_call.op = "e" /\ timer_call.n = 1 /\ timer_call.outcome = "Exception"
    /\ Len(events) = 2
    /\ OpenIds(events) = {}

-----------------------------------------------------------------------------
(* clean_csv_path (io.py)                                                  *)

\* Bound of the number of files that exist.
MaxFiles == 2

ExtCsv == <<".", "c", "s", "v">>

\* s[-n:] and s[:-n] of Python for n > 0.
LastChars(str, n) == SubSeq(str, IF Len(str) > n THEN Len(str) - n + 1 ELSE 1, Len(str))
WithoutLastChars(str, n) == SubSeq(str, 1, Len(str) - n)

\* str(n) of an int n >= 0.
DecimalDigits == <<"0", "1", "2", "3", "4", "5", "6", "7", "8", "9">>
RECURSIVE Str(_)
Str(n) ==
    IF n < 10 THEN <<DecimalDigits[n + 1]>>
    ELSE Str(n \div 10) \o <<DecimalDigits[(n % 10) + 1]>>

\* The paths handed to clean_csv_path and the files that may exist.
CsvPaths == {<<"a">>, <<"a">> \o ExtCsv, <<"a", "1">>, ExtCsv, <<"a", ".", "c", "s">>}
CsvFiles == {<<"a">>, <<"a">> \o ExtCsv, <<"a", "1">> \o ExtCsv,
             <<"a", "1", "1">> \o ExtCsv, <<"a", "2">> \o ExtCsv, ExtCsv,
             <<"1">> \o ExtCsv}

\* os.path.exists(path); no file is created or removed during the call.
exists(path) == path \in fs

\* The call of clean_csv_path(path), before its first statement.
InitCsvPath ==
    /\ fs \in {F \in SUBSET CsvFiles : Cardinality(F) <= MaxFiles}
    /\ \E path \in CsvPaths :
          csv = [pc |-> "extension", path |-> path, path_without_ext |-> Unset,
                 version_count |-> Unset, ret |-> Unset]
    /\ TimerIdle /\ DbIdle
    /\ NCIdle /\ WizIdle /\ AbbrIdle /\ ChkIdle

CsvFrame ==
    /\ UNCHANGED <<fs, timer_vars, db_vars>>
    /\ UNCHANGED <<nc_vars, wiz_vars, abbr_vars, chk_vars>>

\* Lines 360-361: the extension is added to a path that does not end in it.
AddExtension ==
    /\ csv.pc = "extension"
    /\ csv' = [csv EXCEPT !.pc = "exists",
                          !.path = IF LastChars(csv.path, 4) # ExtCsv
                                   THEN csv.path \o ExtCsv ELSE csv.path]
    /\ CsvFrame

\* Lines 363-365: the test of the candidate and the two assignments.
TestCandidate ==
    /\ csv.pc = "exists"
    /\ csv' = IF exists(csv.path)
              THEN [csv EXCEPT !.pc = "while",
                               !.path_without_ext = WithoutLastChars(csv.path, 4),
                               !.version_count = 1]
              ELSE [csv EXCEPT !.pc = "return"]
    /\ CsvFrame

\* Line 366: the test of the while loop.
WhileExists ==
    /\ csv.pc = "while"
    /\ csv' = [csv EXCEPT !.pc = IF exists(csv.path) THEN "body" ELSE "return"]
    /\ CsvFrame

\* Line 367: the body of the loop; it does not assign to version_count.
AppendVersion ==
    /\ csv.pc = "body"
    /\ csv' = [csv EXCEPT !.pc = "while",
                          !.path = csv.path_without_ext
                                     \o Str(csv.version_count) \o ExtCsv]
    /\ CsvFrame

\* Line 368
ReturnPath ==
    /\ csv.pc = "return"
    /\ csv' = [csv EXCEPT !.pc = "done", !.ret = csv.path]
    /\ CsvFrame

NextCsvPath ==
    AddExtension \/ TestCandidate \/ WhileExists \/ AppendVersion \/ ReturnPath

\* The interpreter goes on to the next statement as long as there is one.
SpecCsvPath == InitCsvPath /\ [][NextCsvPath]_vars /\ WF_vars(NextCsvPath)

-----------------------------------------------------------------------------
(* Claims about clean_csv_path                                             *)

\* C29: every call of clean_csv_path returns, and the path returned ends in
\* .csv and does not exist.
C29_CleanCsvPathTerminates ==
    <>(/\ csv.pc = "done"
       /\ LastChars(csv.ret, 4) = ExtCsv
       /\ ~exists(csv.ret))

-----------------------------------------------------------------------------
(* DBWrapper and DBUpdate (db.py)                                          *)

\* Bounds of the queries of one update and of the rows of the wrapper's log.
MaxQueries == 2
MaxLogRows == 3

Queries == {"q1", "q2"}

\* str.lower() on the letters typed.
UpperCase == <<"Y", "N", "X">>
LowerCase == <<"y", "n", "x">>
LowerChar(c) ==
    IF \E i \in 1..Len(UpperCase) : UpperCase[i] = c
    THEN LowerCase[CHOOSE i \in 1..Len(UpperCase) : UpperCase[i] = c]
    ELSE c
Lower(str) == [i \in 1..Len(str) |-> LowerChar(str[i])]

\* The lines typed at the prompt, the last of them a valid answer.
Typed == {<<<<"y">>>>, <<<<"n">>>>, <<<<" ", "Y">>>>, <<<<"N", " ">>>>,
          <<<<"x">>, <<"n">>>>, <<<<>>, <<"y">>>>}

\* DBWrapper._update_log
update_log(log, success, sql) == Append(log, [success |-> success, sql_query |-> sql])

\* DBWrapper.execute(sql) with raise_err=False and log=True: cursor.execute
\* succeeds or raises, and the attempt is logged either way.
execute(log, sql, succeeds) == update_log(log, succeeds, sql)

\* DBWrapper.failures
failures(log) == Len(SelectSeq(log, LAMBDA r : r.success = FALSE))

\* io.response_yes: lines are read until one is y or n.
RECURSIVE response_yes(_)
response_yes(lines) ==
    LET response == Lower(Strip(Head(lines)))
    IN IF response = <<"y">> THEN TRUE
       ELSE IF response = <<"n">> THEN FALSE
       ELSE response_yes(Tail(lines))

\* io.response_no
response_no(lines) == ~response_yes(lines)

\* The loop of update over the queries: the log and the calls made.
RECURSIVE ExecuteAll(_, _, _, _)
ExecuteAll(log, trace, queries, results) ==
    IF queries = <<>> THEN [log |-> log, trace |-> trace]
    ELSE ExecuteAll(execute(log, Head(queries), Head(results)),
                    Append(trace, <<"execute", Head(queries)>>),
                    Tail(queries), Tail(results))

\* Mutant: only the failures of the queries of this call are counted.
updateOwnFailures(log, queries, results, lines) ==
    IF Len(queries) = 0 THEN [log |-> log, trace |-> <<>>, commits |-> 0]
    ELSE LET x == ExecuteAll(log, <<>>, queries, results)
             f == Len(SelectSeq(results, LAMBDA r : r = FALSE))
             asked == IF f = 0 THEN x.trace
                      ELSE x.trace \o <<<<"save", "">>, <<"ask", "">>>>
             commit_chgs == IF f = 0 THEN TRUE ELSE ~response_no(lines)
         IN IF commit_chgs
            THEN [log |-> x.log, trace |-> Append(asked, <<"commit", "">>), commits |-> 1]
            ELSE [log |-> x.log, trace |-> asked, commits |-> 0]

\* DBUpdate.update: the wrapper's log after the call, the calls made on the
\* wrapper and the user in order, and the number of commits.
update(log, queries, results, lines) ==
    IF Len(queries) = 0 THEN [log |-> log, trace |-> <<>>, commits |-> 0]
    ELSE LET x == ExecuteAll(log, <<>>, queries, results)
             asked == IF failures(x.log) = 0 THEN x.trace
                      ELSE x.trace \o <<<<"save", "">>, <<"ask", "">>>>
             commit_chgs == IF failures(x.log) = 0 THEN TRUE ELSE ~response_no(lines)
         IN IF commit_chgs
            THEN [log |-> x.log, trace |-> Append(asked, <<"commit", "">>), commits |-> 1]
            ELSE [log |-> x.log, trace |-> asked, commits |-> 0]

NoUpdate == [op |-> "none", queries |-> <<>>, results |-> <<>>, lines |-> <<>>,
             trace |-> <<>>]

\* DBWrapper.__init__ with a connection that opens, and DBUpdate.__init__
InitDb ==
    /\ db_log = <<>>
    /\ db_commits = 0
    /\ db_call = NoUpdate
    /\ TimerIdle /\ CsvIdle
    /\ NCIdle /\ WizIdle /\ AbbrIdle /\ ChkIdle

\* update(queries, log_path): results[i] tells whether the database accepts
\* queries[i]; lines is what the user types if asked.
Update(queries, results, lines) ==
    /\ Len(db_log) + Len(queries) <= MaxLogRows
    /\ \E r \in {update(db_log, queries, results, lines)} :
          /\ db_log' = r.log
          /\ db_commits' = db_commits + r.commits
          /\ db_call' = [op |-> "update", queries |-> queries, results |-> results,
                         lines |-> lines, trace |-> r.trace]
    /\ UNCHANGED <<timer_vars, csv_vars>>
    /\ UNCHANGED <<nc_vars, wiz_vars, abbr_vars, chk_vars>>

NextDb ==
    \E queries \in ListsUpTo(Queries, MaxQueries) :
       \E results \in [1..Len(queries) -> BOOLEAN] :
          \E lines \in Typed : Update(queries, results, lines)

SpecDb == InitDb /\ [][NextDb]_vars

-----------------------------------------------------------------------------
(* Claims about DBUpdate.update                                            *)

\* The positions of the calls of one kind in a trace.
CallsOf(trace, kind) == {i \in 1..Len(trace) : trace[i][1] = kind}

\* The answer of the user: the last line typed, without surrounding blanks
\* and in lower case, is y.
AnswersYes(lines) == Lower(Strip(lines[Len(lines)])) = <<"y">>

\* C30: update with an empty list executes and commits nothing; otherwise
\* the queries are executed once each, in list order, whether or not an
\* earlier one failed, all before a commit, and the attempt of each is
\* logged; there is one commit when the wrapper's log holds no failed query
\* or the user answers yes, and none when it holds a failed query and the
\* user answers no.
C30_ExecuteAllThenCommit ==
    [][db_call'.op = "update" =>
         \A q \in {db_call'.queries} : \A tr \in {db_call'.trace} :
            /\ q = <<>> => /\ tr = <<>>
                           /\ db_log' = db_log
                           /\ db_commits' = db_commits
            /\ q # <<>> =>
                 /\ \A i \in 1..Len(q) : tr[i] = <<"execute", q[i]>>
                 /\ CallsOf(tr, "execute") = 1..Len(q)
                 /\ db_log' = db_log \o [i \in 1..Len(q) |->
                                           [success |-> db_call'.results[i],
                                            sql_query |-> q[i]]]
                 /\ \A c \in CallsOf(tr, "commit") : c > Len(q)
                 /\ db_commits' - db_commits = Cardinality(CallsOf(tr, "commit"))
                 /\ IF \/ \A i \in 1..Len(db_log') : db_log'[i].success
                       \/ AnswersYes(db_call'.lines)
                    THEN db_commits' = db_commits + 1
                    ELSE db_commits' = db_commits]_vars

\* The first query fails, the second is executed all the same, and the
\* user declines: nothing is committed.
C30_Witness ==
    /\ db_call.op = "update"
    /\ db_call.queries = <<"q1", "q2">>
    /\ db_call.results = <<FALSE, TRUE>>
    /\ ~AnswersYes(db_call.lines)
    /\ db_log = <<[success |-> FALSE, sql_query |-> "q1"],
                  [success |-> TRUE, sql_query |-> "q2"]>>
    /\ db_commits = 0

\* A second update whose queries all succeed after one with a failure: the
\* user is asked again, and the answer yes commits.
C30_WitnessAsked ==
    /\ db_call.op = "update"
    /\ Len(db_log) = 2
    /\ ~db_log[1].success /\ db_log[2].success
    /\ db_call.queries = <<"q2">>
    /\ CallsOf(db_call.trace, "ask") # {}
    /\ CallsOf(db_call.trace, "commit") # {}

=============================================================================
